---- MODULE Spec2Model ----
(***************************************************************************)
(* Verification model of the wallet address ledger (src/src/address.rs)    *)
(* and of the payload codec exercised by sdk/tests/types/payload.rs.       *)
(***************************************************************************)
EXTENDS Integers, Sequences, FiniteSets, TLC

VARIABLES
    addresses,   \* account.addresses(): the account's stored Address list
    vault,       \* stronghold: answers already given, per (address_index, internal)
    pc,          \* per caller: position in get_addresses / get_new_address
    op,          \* per caller: the entry point it called
    count,       \* per caller: get_addresses' count argument
    internal,    \* per caller: the internal argument
    local,       \* per caller: get_addresses' local `addresses` vector
    cur,         \* per caller: get_new_address' locals (key_index, iota_address)
    ret,         \* per caller: the value returned to it
    pushed,      \* per caller: addresses obtained so far by the running call (history)
    derived,     \* history of get_iota_address calls: <<input, outcome>>
    messages,    \* the account's message history
    unspent,     \* the last is_unspent query: its address and its answer
    builder,     \* the AddressBuilder under construction
    built,       \* what AddressBuilder::build returned
    payload,     \* codec: the payload built by the caller
    packed,      \* codec: pack_to_vec's bytes
    predicted,   \* codec: packed_len's answer
    unpacked,    \* codec: unpack_verified's result
    unlock_blocks,   \* Unlocks::new: the Vec<Unlock> the caller assembled
    checked_unlocks, \* Unlocks::new: its result
    essence_builder,\* RegularTransactionEssenceBuilder under construction
    finished,    \* what finish() returned
    subject,     \* the value handed to a conversion (try_from / try_into)
    converted,   \* the result of the conversion
    reconverted, \* the result of converting the same subject a second time
    restored,    \* the result of converting the conversion result back
    BECH32_HRP,  \* static mut BECH32_HRP
    lhs,         \* the left address of a comparison
    rhs,         \* the right address
    equal,       \* what lhs == rhs gave
    ordering,    \* what lhs.cmp(&rhs) gave
    hashes,      \* what hashing each of the two fed the hasher
    RUNTIME,     \* static RUNTIME: OnceCell<Mutex<Runtime>>
    runtimes_created,\* how many times Runtime::new() has succeeded
    mutex,       \* the thread that holds the Mutex around the runtime
    thread_pc,   \* where each thread is in spawn or in lazy_static!
    handle,      \* the runtime get_or_init gave each thread
    spawned,     \* the runtimes futures were spawned on
    VALUE,       \* static mut VALUE: Option<$type>
    INIT,        \* static INIT: std::sync::Once
    init_runs,   \* how many times the initializer has started
    handed       \* what lazy_static! gave each thread

walletVars == <<addresses, vault, pc, op, count, internal, local, cur, ret, pushed, derived>>

accountVars == <<messages, unspent>>

builderVars == <<builder, built>>

codecVars == <<payload, packed, predicted, unpacked>>

unlockVars == <<unlock_blocks, checked_unlocks>>

essenceVars == <<essence_builder, finished>>

conversionVars == <<subject, converted, reconverted, restored, BECH32_HRP>>

orderVars == <<lhs, rhs, equal, ordering, hashes>>

runtimeVars == <<RUNTIME, runtimes_created, mutex, thread_pc, handle, spawned, VALUE, INIT, init_runs, handed>>

vars == <<walletVars, accountVars, builderVars, codecVars, unlockVars, essenceVars, conversionVars, orderVars, runtimeVars>>

\* What each part of the program leaves alone.
nonWalletVars == <<accountVars, builderVars, codecVars, unlockVars, essenceVars, conversionVars, orderVars, runtimeVars>>
nonAccountVars == <<walletVars, builderVars, codecVars, unlockVars, essenceVars, conversionVars, orderVars, runtimeVars>>
nonBuilderVars == <<walletVars, accountVars, codecVars, unlockVars, essenceVars, conversionVars, orderVars, runtimeVars>>
nonCodecVars == <<walletVars, accountVars, builderVars, unlockVars, essenceVars, conversionVars, orderVars, runtimeVars>>
nonUnlockVars == <<walletVars, accountVars, builderVars, codecVars, essenceVars, conversionVars, orderVars, runtimeVars>>
nonEssenceVars == <<walletVars, accountVars, builderVars, codecVars, unlockVars, conversionVars, orderVars, runtimeVars>>
nonConversionVars == <<walletVars, accountVars, builderVars, codecVars, unlockVars, essenceVars, orderVars, runtimeVars>>
nonOrderVars == <<walletVars, accountVars, builderVars, codecVars, unlockVars, essenceVars, conversionVars, runtimeVars>>
nonRuntimeVars == <<walletVars, accountVars, builderVars, codecVars, unlockVars, essenceVars, conversionVars, orderVars>>

----------------------------------------------------------------------------
(* Bounds *)

NumCallers == 2
MaxCount == 2
MaxStoredAddresses == 2
MaxMessages == 2
MaxInputs == 2
MaxOutputs == 2
MaxUnlocks == 3
MaxPublicKeys == 2
NumThreads == 2
MaxRuntimes == 2

Callers == 1..NumCallers

----------------------------------------------------------------------------
(* Results: crate::Result<T>, and a panic (process abort) as a third outcome *)

Ok(v) == [tag |-> "Ok", value |-> v]
Err(e) == [tag |-> "Err", error |-> e]
Panic == [tag |-> "Panic"]
None == [tag |-> "None"]

----------------------------------------------------------------------------
(* Strings: sequences of characters, a character being its value as a base-36 *)
(* digit ('0'..'9' = 0..9, 'a'..'z' = 10..35), so the hex digits are 0..15.   *)

HexDigits == 0..15

\* "atoi1" and "iota1"
atoi1 == <<10, 29, 24, 18, 1>>
iota1 == <<18, 24, 29, 10, 1>>

----------------------------------------------------------------------------
(* bech32 *)

Pow2(n) == 2 ^ n

\* Bit k (0-based, most significant first) of the stream of `from`-bit values.
StreamBit(data, from, k) == (data[(k \div from) + 1] \div Pow2(from - 1 - (k % from))) % 2

\* The value of the `n` stream bits from bit `start`, left-aligned in `to` bits.
RECURSIVE Group(_, _, _, _, _)
Group(data, from, to, start, n) ==
    IF n = 0 THEN 0
    ELSE Group(data, from, to, start, n - 1)
         + StreamBit(data, from, start + n - 1) * Pow2(to - n)

\* bech32::convert_bits: regroup `data` (values of `from` bits) into values of
\* `to` bits: every full group is emitted, the leftover bits are padded or checked.
convert_bits(data, from, to, pad) ==
    LET total == Len(data) * from
        full == total \div to
        bits == total % to
        out == [j \in 1..full |-> Group(data, from, to, (j - 1) * to, to)]
        rest == Group(data, from, to, full * to, bits)
    IN  IF pad
        THEN Ok(IF bits > 0 THEN Append(out, rest) ELSE out)
        ELSE IF bits >= from \/ rest # 0
             THEN Err("InvalidPadding")
             ELSE Ok(out)

to_base32(bytes) == convert_bits(bytes, 8, 5, TRUE).value

from_base32(data) == convert_bits(data, 5, 8, FALSE)

----------------------------------------------------------------------------
(* The vault (stronghold) and address derivation *)

ED25519_ADDRESS_LENGTH == 32

Hash(seed) == [i \in 1..ED25519_ADDRESS_LENGTH |-> seed]

\* A bech32 string as bech32::decode sees it: whether its checksum verifies,
\* and its data part (5-bit groups).
AddressString(bytes) == [tag |-> "Ok", checksum_ok |-> TRUE, data |-> to_base32(bytes)]

\* What stronghold.address_get may answer for one (address_index, internal).
VaultAnswers ==
    { AddressString(<<0>> \o Hash(1)),
      AddressString(<<0>> \o Hash(2)),
      AddressString(Hash(1)),
      AddressString(<<0, 0>> \o Hash(1)),
      AddressString(<<>>),
      [tag |-> "Ok", checksum_ok |-> TRUE, data |-> <<1>>],
      [tag |-> "Ok", checksum_ok |-> FALSE, data |-> to_base32(<<0>> \o Hash(1))],
      [tag |-> "Err", checksum_ok |-> FALSE, data |-> <<>>] }

\* The body of get_iota_address, given the vault's answer to address_get.
get_iota_address(answer) ==
    IF answer.tag = "Err" THEN Err("VaultError")
    ELSE IF ~answer.checksum_ok THEN Err("Bech32Error")
    ELSE LET address_ed25519 == from_base32(answer.data)
         IN  IF address_ed25519.tag = "Err" THEN Err("Bech32Error")
             ELSE IF Len(address_ed25519.value) < 1 THEN Panic
             ELSE LET rest == SubSeq(address_ed25519.value, 2, Len(address_ed25519.value))
                  IN  IF Len(rest) = ED25519_ADDRESS_LENGTH
                      THEN Ok(rest)
                      ELSE Err("InvalidAddressLength")

\* get_iota_address on each answer of the vault, computed once.
Derivation == [answer \in VaultAnswers |-> get_iota_address(answer)]

----------------------------------------------------------------------------
(* Address generation *)

\* What the node may answer to client.get_address().balance(address).
BalanceResponses == {Ok(0), Ok(40), Err("ClientError")}

\* The Address value get_new_address builds.
NewAddress(iota_address, balance, key_index, is_internal) ==
    [address |-> iota_address, balance |-> balance, key_index |-> key_index,
     internal |-> is_internal, outputs |-> <<>>]

\* An address the account already holds (restored from storage).
StoredAddress(i) == NewAddress(Hash(10 + i), 0, i, FALSE)

\* A caller's call ends: with `r` returned, the local vector gone.
Return(p, r) ==
    /\ ret' = [ret EXCEPT ![p] = r]
    /\ pc' = [pc EXCEPT ![p] = "done"]
    /\ local' = [local EXCEPT ![p] = <<>>]
    /\ cur' = [cur EXCEPT ![p] = None]

\* get_addresses(account, n, is_internal): entry and the loop's first test.
get_addresses(p, n, is_internal) ==
    /\ pc[p] = "idle"
    /\ op' = [op EXCEPT ![p] = "get_addresses"]
    /\ count' = [count EXCEPT ![p] = n]
    /\ internal' = [internal EXCEPT ![p] = is_internal]
    /\ pushed' = [pushed EXCEPT ![p] = 0]
    /\ IF n = 0
       THEN Return(p, Ok(<<>>))
       ELSE /\ pc' = [pc EXCEPT ![p] = "get_new_address"]
            /\ local' = [local EXCEPT ![p] = <<>>]
            /\ UNCHANGED <<cur, ret>>
    /\ UNCHANGED <<addresses, vault, derived, nonWalletVars>>

\* A direct call of get_new_address(account, is_internal).
get_new_address_call(p, is_internal) ==
    /\ pc[p] = "idle"
    /\ op' = [op EXCEPT ![p] = "get_new_address"]
    /\ internal' = [internal EXCEPT ![p] = is_internal]
    /\ pc' = [pc EXCEPT ![p] = "get_new_address"]
    /\ pushed' = [pushed EXCEPT ![p] = 0]
    /\ UNCHANGED <<addresses, vault, count, local, cur, ret, derived, nonWalletVars>>

\* get_new_address up to its await: reads the address count, derives the address.
get_new_address(p) ==
    /\ pc[p] = "get_new_address"
    /\ LET key_index == Len(addresses)
           input == <<key_index, internal[p]>>
       IN  \E answer \in (IF input \in DOMAIN vault THEN {vault[input]} ELSE VaultAnswers) :
             LET iota_address == Derivation[answer]
             IN  /\ vault' = (input :> answer) @@ vault
                 /\ derived' = derived \cup {<<input, iota_address>>}
                 /\ IF iota_address.tag = "Ok"
                    THEN /\ cur' = [cur EXCEPT ![p] =
                                      [tag |-> "Some", key_index |-> key_index,
                                       iota_address |-> iota_address.value]]
                         /\ pc' = [pc EXCEPT ![p] = "get_balance"]
                         /\ UNCHANGED <<local, ret>>
                    ELSE Return(p, iota_address)
    /\ UNCHANGED <<addresses, op, count, internal, pushed, nonWalletVars>>

\* get_balance's await completes; get_new_address returns; get_addresses pushes
\* and tests its loop again.
get_balance(p, response) ==
    /\ pc[p] = "get_balance"
    /\ IF response.tag = "Err"
       THEN Return(p, response) /\ UNCHANGED pushed
       ELSE LET address == NewAddress(cur[p].iota_address, response.value,
                                      cur[p].key_index, internal[p])
            IN  IF op[p] = "get_new_address"
                THEN Return(p, Ok(address)) /\ UNCHANGED pushed
                ELSE /\ pushed' = [pushed EXCEPT ![p] = @ + 1]
                     /\ IF Len(local[p]) + 1 < count[p]
                        THEN /\ local' = [local EXCEPT ![p] = Append(@, address)]
                             /\ pc' = [pc EXCEPT ![p] = "get_new_address"]
                             /\ cur' = [cur EXCEPT ![p] = None]
                             /\ UNCHANGED ret
                        ELSE Return(p, Ok(Append(local[p], address)))
    /\ UNCHANGED <<addresses, vault, op, count, internal, derived, nonWalletVars>>

\* The caller takes the returned value and may call again.
Resume(p) ==
    /\ pc[p] = "done"
    /\ pc' = [pc EXCEPT ![p] = "idle"]
    /\ ret' = [ret EXCEPT ![p] = None]
    /\ pushed' = [pushed EXCEPT ![p] = 0]
    /\ op' = [op EXCEPT ![p] = "none"]
    /\ count' = [count EXCEPT ![p] = 0]
    /\ internal' = [internal EXCEPT ![p] = FALSE]
    /\ UNCHANGED <<addresses, vault, local, cur, derived, nonWalletVars>>

WalletIdle ==
    /\ vault = <<>>
    /\ pc = [p \in Callers |-> "idle"]
    /\ op = [p \in Callers |-> "none"]
    /\ count = [p \in Callers |-> 0]
    /\ internal = [p \in Callers |-> FALSE]
    /\ local = [p \in Callers |-> <<>>]
    /\ cur = [p \in Callers |-> None]
    /\ ret = [p \in Callers |-> None]
    /\ pushed = [p \in Callers |-> 0]
    /\ derived = {}

----------------------------------------------------------------------------
(* Messages of the account (crate::message, crate::account) *)

IotaAddresses == {Hash(1), Hash(2)}

MessageTypes == {"Received", "Sent", "Failed"}

\* A message of the account's history: its type, the addresses it spends from
\* (what Message::addresses returns) and the addresses it pays to.
Messages ==
    [type : MessageTypes, addresses : SUBSET IotaAddresses, destinations : SUBSET IotaAddresses]

RECURSIVE SelectSeq2(_, _)
SelectSeq2(seq, type) ==
    IF seq = <<>> THEN <<>>
    ELSE IF Head(seq).type = type
         THEN <<Head(seq)>> \o SelectSeq2(Tail(seq), type)
         ELSE SelectSeq2(Tail(seq), type)

\* Account::list_messages(count, from, message_type): the messages of the type
\* (all with no type given), skipping `from`, at most `count` of them (all when 0).
list_messages(msgs, n, from, message_type) ==
    LET typed == IF message_type = None THEN msgs ELSE SelectSeq2(msgs, message_type.value)
        skipped == SubSeq(typed, from + 1, Len(typed))
    IN  IF n = 0 THEN skipped ELSE SubSeq(skipped, 1, IF n < Len(skipped) THEN n ELSE Len(skipped))

Some(v) == [tag |-> "Some", value |-> v]

\* is_unspent without the type filter: every message of the history counts.
is_unspent_any_type(msgs, address) ==
    LET sent == list_messages(msgs, 0, 0, None)
    IN  ~ \E i \in DOMAIN sent : address \in sent[i].addresses

is_unspent(msgs, address) ==
    LET sent == list_messages(msgs, 0, 0, Some("Sent"))
    IN  ~ \E i \in DOMAIN sent : address \in sent[i].addresses

\* The account stores a message (sent, received or failed).
save_message(m) ==
    /\ Len(messages) < MaxMessages
    /\ messages' = Append(messages, m)
    /\ unspent' = None
    /\ UNCHANGED nonAccountVars

\* A call of is_unspent(account, a).
is_unspent_call(a) ==
    /\ unspent' = [tag |-> "Some", address |-> a, value |-> is_unspent(messages, a)]
    /\ UNCHANGED <<messages, nonAccountVars>>

AccountIdle ==
    /\ messages = <<>>
    /\ unspent = None

----------------------------------------------------------------------------
(* AddressBuilder *)

AddressOutput(amount, is_spent) ==
    [transaction_id |-> Hash(7), message_id |-> Hash(8), index |-> 0,
     amount |-> amount, is_spent |-> is_spent]

\* The output lists a caller hands to the builder.
OutputLists ==
    { <<>>,
      <<AddressOutput(10, FALSE), AddressOutput(20, TRUE), AddressOutput(30, FALSE)>> }

\* AddressBuilder::new(): Default::default().
AddressBuilder_default ==
    [tag |-> "Some", address |-> None, balance |-> None, key_index |-> None,
     internal |-> FALSE, outputs |-> None]

AddressBuilder_new ==
    /\ builder' = AddressBuilder_default
    /\ UNCHANGED <<built, nonBuilderVars>>

builder_address(a) ==
    /\ builder.tag = "Some"
    /\ builder' = [builder EXCEPT !.address = Some(a)]
    /\ UNCHANGED <<built, nonBuilderVars>>

builder_balance(b) ==
    /\ builder.tag = "Some"
    /\ builder' = [builder EXCEPT !.balance = Some(b)]
    /\ UNCHANGED <<built, nonBuilderVars>>

builder_key_index(k) ==
    /\ builder.tag = "Some"
    /\ builder' = [builder EXCEPT !.key_index = Some(k)]
    /\ UNCHANGED <<built, nonBuilderVars>>

builder_outputs(o) ==
    /\ builder.tag = "Some"
    /\ builder' = [builder EXCEPT !.outputs = Some(o)]
    /\ UNCHANGED <<built, nonBuilderVars>>

\* AddressBuilder::build: every field but `internal` is required.
build(b) ==
    IF b.address = None THEN Err("the address field is required")
    ELSE IF b.balance = None THEN Err("the balance field is required")
    ELSE IF b.key_index = None THEN Err("the key_index field is required")
    ELSE IF b.outputs = None THEN Err("the outputs field is required")
    ELSE Ok([address |-> b.address.value, balance |-> b.balance.value,
             key_index |-> b.key_index.value, internal |-> b.internal,
             outputs |-> b.outputs.value])

\* builder.build(): the builder is consumed.
builder_build ==
    /\ builder.tag = "Some"
    /\ built' = build(builder)
    /\ builder' = None
    /\ UNCHANGED nonBuilderVars

BuilderIdle ==
    /\ builder = None
    /\ built = None

CodecIdle ==
    /\ payload = None
    /\ packed = None
    /\ predicted = None
    /\ unpacked = None

UnlockIdle ==
    /\ unlock_blocks = <<>>
    /\ checked_unlocks = None

EssenceIdle ==
    /\ essence_builder = None
    /\ finished = None

ConversionIdle ==
    /\ subject = None
    /\ converted = None
    /\ reconverted = None
    /\ restored = None
    /\ BECH32_HRP = atoi1

OrderIdle ==
    /\ lhs = None
    /\ rhs = None
    /\ equal = None
    /\ ordering = None
    /\ hashes = None

\* The threads that call spawn and lazy_static!.
Threads == 1..NumThreads

\* A OnceCell or a Once nothing has touched.
Incomplete == [state |-> "Incomplete", value |-> None]

RuntimeIdle ==
    /\ RUNTIME = Incomplete
    /\ runtimes_created = 0
    /\ mutex = None
    /\ thread_pc = [t \in Threads |-> "idle"]
    /\ handle = [t \in Threads |-> None]
    /\ spawned = {}
    /\ VALUE = None
    /\ INIT = "Incomplete"
    /\ init_runs = 0
    /\ handed = [t \in Threads |-> None]

WalletInit ==
    /\ \E n \in 0..MaxStoredAddresses : addresses = [i \in 1..n |-> StoredAddress(i - 1)]
    /\ WalletIdle

Init ==
    /\ WalletInit
    /\ AccountIdle
    /\ BuilderIdle
    /\ CodecIdle
    /\ UnlockIdle
    /\ EssenceIdle
    /\ ConversionIdle
    /\ OrderIdle
    /\ RuntimeIdle

Next ==
    \/ \E p \in Callers, n \in 0..MaxCount, b \in BOOLEAN : get_addresses(p, n, b)
    \/ \E p \in Callers, b \in BOOLEAN : get_new_address_call(p, b)
    \/ \E p \in Callers : get_new_address(p)
    \/ \E p \in Callers, r \in BalanceResponses : get_balance(p, r)
    \/ \E p \in Callers : Resume(p)

Spec == Init /\ [][Next]_vars

----------------------------------------------------------------------------
(* The account's message history and is_unspent *)

InitAccount ==
    /\ addresses = <<>>
    /\ WalletIdle
    /\ AccountIdle
    /\ BuilderIdle
    /\ CodecIdle
    /\ UnlockIdle
    /\ EssenceIdle
    /\ ConversionIdle
    /\ OrderIdle
    /\ RuntimeIdle

NextAccount ==
    \/ \E m \in Messages : save_message(m)
    \/ \E a \in IotaAddresses : is_unspent_call(a)

SpecAccount == InitAccount /\ [][NextAccount]_vars

----------------------------------------------------------------------------
(* Uses of the AddressBuilder *)

InitBuilder ==
    /\ addresses = <<>>
    /\ WalletIdle
    /\ AccountIdle
    /\ BuilderIdle
    /\ CodecIdle
    /\ UnlockIdle
    /\ EssenceIdle
    /\ ConversionIdle
    /\ OrderIdle
    /\ RuntimeIdle

NextBuilder ==
    \/ AddressBuilder_new
    \/ \E a \in IotaAddresses : builder_address(a)
    \/ \E b \in {0, 40} : builder_balance(b)
    \/ \E k \in 0..MaxStoredAddresses : builder_key_index(k)
    \/ \E o \in OutputLists : builder_outputs(o)
    \/ builder_build

SpecBuilder == InitBuilder /\ [][NextBuilder]_vars

----------------------------------------------------------------------------
(* Payload values (types::block::payload) *)

TREASURY_TRANSACTION_KIND == 4
TAGGED_DATA_KIND == 5
TRANSACTION_KIND == 6
MILESTONE_KIND == 7

ID_LENGTH == 32
PUBLIC_KEY_LENGTH == 32
SIGNATURE_LENGTH == 64

\* Discriminants of the nested variants.
INPUT_UTXO == 0
INPUT_TREASURY == 1
OUTPUT_TREASURY == 2
OUTPUT_BASIC == 3
UNLOCK_SIGNATURE == 0
UNLOCK_REFERENCE == 1

\* protocol_parameters()
NETWORK_ID == 9
TOKEN_SUPPLY == 1500000
PROTOCOL_VERSION == 2

Fixed(n, s) == [i \in 1..n |-> s]
Id(s) == Fixed(ID_LENGTH, s)

UtxoInput(transaction_id, output_index) ==
    [type |-> "Utxo", transaction_id |-> transaction_id, output_index |-> output_index]
TreasuryInput(milestone_id) == [type |-> "Treasury", milestone_id |-> milestone_id]
BasicOutput(amount, address) == [type |-> "Basic", amount |-> amount, address |-> address]
TreasuryOutput(amount) == [type |-> "Treasury", amount |-> amount]
SignatureUnlock(public_key, signature) ==
    [type |-> "Signature", public_key |-> public_key, signature |-> signature]
ReferenceUnlock(index) == [type |-> "Reference", index |-> index]
Ed25519Signature(s) ==
    [public_key |-> Fixed(PUBLIC_KEY_LENGTH, s), signature |-> Fixed(SIGNATURE_LENGTH, s)]

TaggedDataPayload(tag, data) == [variant |-> "TaggedData", tag |-> tag, data |-> data]
TreasuryTransactionPayload(input, output) ==
    [variant |-> "TreasuryTransaction", input |-> input, output |-> output]
TransactionPayload(essence, unlocks) ==
    [variant |-> "Transaction", essence |-> essence, unlocks |-> unlocks]
MilestonePayload(essence, signatures) ==
    [variant |-> "Milestone", essence |-> essence, signatures |-> signatures]

\* Payload::kind()
kind_wrong(p) ==
    CASE p.variant = "TreasuryTransaction" -> TREASURY_TRANSACTION_KIND
      [] p.variant = "TaggedData" -> TAGGED_DATA_KIND
      [] p.variant = "Transaction" -> TAGGED_DATA_KIND
      [] p.variant = "Milestone" -> MILESTONE_KIND

kind(p) ==
    CASE p.variant = "TreasuryTransaction" -> TREASURY_TRANSACTION_KIND
      [] p.variant = "TaggedData" -> TAGGED_DATA_KIND
      [] p.variant = "Transaction" -> TRANSACTION_KIND
      [] p.variant = "Milestone" -> MILESTONE_KIND

----------------------------------------------------------------------------
(* pack *)

\* n as w little-endian bytes.
RECURSIVE LE(_, _)
LE(n, w) == IF w = 0 THEN <<>> ELSE <<n % 256>> \o LE(n \div 256, w - 1)

RECURSIVE FromLE(_)
FromLE(bytes) == IF bytes = <<>> THEN 0 ELSE Head(bytes) + 256 * FromLE(Tail(bytes))

RECURSIVE Flatten(_)
Flatten(seqs) == IF seqs = <<>> THEN <<>> ELSE Head(seqs) \o Flatten(Tail(seqs))

pack_input(i) ==
    IF i.type = "Utxo"
    THEN <<INPUT_UTXO>> \o i.transaction_id \o LE(i.output_index, 2)
    ELSE <<INPUT_TREASURY>> \o i.milestone_id

pack_output(o) ==
    IF o.type = "Basic"
    THEN <<OUTPUT_BASIC>> \o LE(o.amount, 8) \o o.address
    ELSE <<OUTPUT_TREASURY>> \o LE(o.amount, 8)

pack_unlock(u) ==
    IF u.type = "Signature"
    THEN <<UNLOCK_SIGNATURE>> \o u.public_key \o u.signature
    ELSE <<UNLOCK_REFERENCE>> \o LE(u.index, 2)

pack_signature(g) == g.public_key \o g.signature

pack_tagged_data(p) == LE(Len(p.tag), 1) \o p.tag \o LE(Len(p.data), 4) \o p.data

pack_transaction_essence(e) ==
    LE(e.network_id, 8)
    \o e.inputs_commitment
    \o LE(Len(e.inputs), 2) \o Flatten([i \in DOMAIN e.inputs |-> pack_input(e.inputs[i])])
    \o LE(Len(e.outputs), 2) \o Flatten([i \in DOMAIN e.outputs |-> pack_output(e.outputs[i])])
    \o (IF e.payload = None
        THEN LE(0, 4)
        ELSE LE(1 + Len(pack_tagged_data(e.payload)), 4)
             \o <<kind(e.payload)>> \o pack_tagged_data(e.payload))

pack_milestone_essence(e) ==
    LE(e.index, 4)
    \o LE(e.timestamp, 8)
    \o LE(e.protocol_version, 1)
    \o e.previous_milestone_id
    \o LE(Len(e.parents), 1) \o Flatten(e.parents)
    \o e.inclusion_merkle_root
    \o e.applied_merkle_root
    \o LE(Len(e.options), 1) \o e.options

\* pack with the fields of the treasury transaction written output first.
pack_misordered(p) ==
    CASE p.variant = "TreasuryTransaction" ->
            <<kind(p)>> \o pack_output(p.output) \o pack_input(p.input)
      [] p.variant = "TaggedData" -> <<kind(p)>> \o pack_tagged_data(p)
      [] p.variant = "Transaction" ->
            <<kind(p)>> \o pack_transaction_essence(p.essence)
            \o LE(Len(p.unlocks), 2)
            \o Flatten([i \in DOMAIN p.unlocks |-> pack_unlock(p.unlocks[i])])
      [] p.variant = "Milestone" ->
            <<kind(p)>> \o pack_milestone_essence(p.essence)
            \o LE(Len(p.signatures), 1)
            \o Flatten([i \in DOMAIN p.signatures |-> pack_signature(p.signatures[i])])

\* pack(payload): the kind tag, then the variant's fields in order.
pack(p) ==
    CASE p.variant = "TreasuryTransaction" ->
            <<kind(p)>> \o pack_input(p.input) \o pack_output(p.output)
      [] p.variant = "TaggedData" -> <<kind(p)>> \o pack_tagged_data(p)
      [] p.variant = "Transaction" ->
            <<kind(p)>> \o pack_transaction_essence(p.essence)
            \o LE(Len(p.unlocks), 2)
            \o Flatten([i \in DOMAIN p.unlocks |-> pack_unlock(p.unlocks[i])])
      [] p.variant = "Milestone" ->
            <<kind(p)>> \o pack_milestone_essence(p.essence)
            \o LE(Len(p.signatures), 1)
            \o Flatten([i \in DOMAIN p.signatures |-> pack_signature(p.signatures[i])])

----------------------------------------------------------------------------
(* packed_len *)

RECURSIVE Sum(_)
Sum(lens) == IF lens = <<>> THEN 0 ELSE Head(lens) + Sum(Tail(lens))

input_len(i) == 1 + (IF i.type = "Utxo" THEN ID_LENGTH + 2 ELSE ID_LENGTH)
output_len(o) == 1 + 8 + (IF o.type = "Basic" THEN ED25519_ADDRESS_LENGTH ELSE 0)
unlock_len(u) == 1 + (IF u.type = "Signature" THEN PUBLIC_KEY_LENGTH + SIGNATURE_LENGTH ELSE 2)
tagged_data_len(p) == 1 + Len(p.tag) + 4 + Len(p.data)

transaction_essence_len(e) ==
    8 + ID_LENGTH
    + 2 + Sum([i \in DOMAIN e.inputs |-> input_len(e.inputs[i])])
    + 2 + Sum([i \in DOMAIN e.outputs |-> output_len(e.outputs[i])])
    + 4 + (IF e.payload = None THEN 0 ELSE 1 + tagged_data_len(e.payload))

milestone_essence_len(e) ==
    4 + 8 + 1 + ID_LENGTH + 1 + ID_LENGTH * Len(e.parents) + ID_LENGTH + ID_LENGTH
    + 1 + Len(e.options)

\* packed_len that leaves the kind tag out.
packed_len_no_tag(p) ==
    CASE p.variant = "TreasuryTransaction" -> input_len(p.input) + output_len(p.output)
      [] p.variant = "TaggedData" -> tagged_data_len(p)
      [] p.variant = "Transaction" ->
            transaction_essence_len(p.essence)
            + 2 + Sum([i \in DOMAIN p.unlocks |-> unlock_len(p.unlocks[i])])
      [] p.variant = "Milestone" ->
            milestone_essence_len(p.essence)
            + 1 + (PUBLIC_KEY_LENGTH + SIGNATURE_LENGTH) * Len(p.signatures)

\* packed_len(payload): the kind tag and the width of every field.
packed_len(p) ==
    1 + (CASE p.variant = "TreasuryTransaction" -> input_len(p.input) + output_len(p.output)
           [] p.variant = "TaggedData" -> tagged_data_len(p)
           [] p.variant = "Transaction" ->
                 transaction_essence_len(p.essence)
            + 2 + Sum([i \in DOMAIN p.unlocks |-> unlock_len(p.unlocks[i])])
           [] p.variant = "Milestone" ->
                 milestone_essence_len(p.essence)
                 + 1 + (PUBLIC_KEY_LENGTH + SIGNATURE_LENGTH) * Len(p.signatures))

----------------------------------------------------------------------------
(* Validation: essence finish(), Unlocks::new, TransactionPayload::new *)

RECURSIVE SumAmounts(_)
SumAmounts(outputs) ==
    IF outputs = <<>> THEN 0 ELSE Head(outputs).amount + SumAmounts(Tail(outputs))

\* finish that does not look for duplicate inputs.
finish_keeping_duplicates(e, params) ==
    IF e.inputs = <<>> \/ e.outputs = <<>> THEN Err("ValidationError")
    ELSE IF e.network_id # params.network_id THEN Err("NetworkMismatchError")
    ELSE IF \/ \E i \in DOMAIN e.outputs : e.outputs[i].amount = 0
            \/ SumAmounts(e.outputs) > params.token_supply
    THEN Err("AmountError")
    ELSE IF e.payload # None /\ e.payload.variant # "TaggedData" THEN Err("ValidationError")
    ELSE Ok(e)

\* RegularTransactionEssence finish_with_params: Ok(essence) or the error.
finish(e, params) ==
    IF e.inputs = <<>> \/ e.outputs = <<>> THEN Err("ValidationError")
    ELSE IF \E i, j \in DOMAIN e.inputs : i # j /\ e.inputs[i] = e.inputs[j]
    THEN Err("DuplicateInputError")
    ELSE IF e.network_id # params.network_id THEN Err("NetworkMismatchError")
    ELSE IF \/ \E i \in DOMAIN e.outputs : e.outputs[i].amount = 0
            \/ SumAmounts(e.outputs) > params.token_supply
    THEN Err("AmountError")
    ELSE IF e.payload # None /\ e.payload.variant # "TaggedData" THEN Err("ValidationError")
    ELSE Ok(e)

\* Unlocks::new that lets a reference name any earlier unlock.
unlocks_new_chained(unlocks) ==
    IF \A i \in DOMAIN unlocks :
          unlocks[i].type = "Reference" => unlocks[i].index + 1 < i
    THEN Ok(unlocks)
    ELSE Err("UnlockReferenceError")

\* Unlocks::new: a reference names an earlier signature unlock.
unlocks_new(unlocks) ==
    IF \A i \in DOMAIN unlocks :
          unlocks[i].type = "Reference"
          => /\ unlocks[i].index + 1 < i
             /\ unlocks[unlocks[i].index + 1].type = "Signature"
    THEN Ok(unlocks)
    ELSE Err("UnlockReferenceError")

\* TransactionPayload::new: one unlock per input.
transaction_payload_new(essence, unlocks) ==
    IF Len(unlocks) # Len(essence.inputs)
    THEN Err("ValidationError")
    ELSE Ok(TransactionPayload(essence, unlocks))

\* MilestoneEssence::new: parents non-empty, unique and sorted.
RECURSIVE Less(_, _)
Less(a, b) ==
    IF b = <<>> THEN FALSE
    ELSE IF a = <<>> THEN TRUE
    ELSE IF Head(a) # Head(b) THEN Head(a) < Head(b)
    ELSE Less(Tail(a), Tail(b))

milestone_essence_new(e) ==
    IF e.parents = <<>> THEN Err("ValidationError")
    ELSE IF \E i \in 1..(Len(e.parents) - 1) : ~Less(e.parents[i], e.parents[i + 1])
    THEN Err("ValidationError")
    ELSE Ok(e)

----------------------------------------------------------------------------
(* unpack *)

\* A reader's result: the value read and the position after it, or a failure.
Fail == [ok |-> FALSE]
Read(v, pos) == [ok |-> TRUE, value |-> v, pos |-> pos]

\* The ? operator of a reader: go on with the value read, or fail.
Then(r, f(_, _)) == IF r.ok THEN f(r.value, r.pos) ELSE Fail

read_bytes(b, pos, n) ==
    IF pos + n - 1 <= Len(b) THEN Read(SubSeq(b, pos, pos + n - 1), pos + n) ELSE Fail

read_uint(b, pos, w) == Then(read_bytes(b, pos, w), LAMBDA v, p : Read(FromLE(v), p))

read_id(b, pos) == read_bytes(b, pos, ID_LENGTH)

RECURSIVE read_ids(_, _, _)
read_ids(b, pos, n) ==
    IF n = 0 THEN Read(<<>>, pos)
    ELSE Then(read_id(b, pos), LAMBDA h, p1 :
         Then(read_ids(b, p1, n - 1), LAMBDA t, p2 : Read(<<h>> \o t, p2)))

read_input(b, pos) ==
    Then(read_uint(b, pos, 1), LAMBDA t, p1 :
         IF t = INPUT_UTXO
         THEN Then(read_id(b, p1), LAMBDA id, p2 :
              Then(read_uint(b, p2, 2), LAMBDA ix, p3 : Read(UtxoInput(id, ix), p3)))
         ELSE IF t = INPUT_TREASURY
         THEN Then(read_id(b, p1), LAMBDA id, p2 : Read(TreasuryInput(id), p2))
         ELSE Fail)

RECURSIVE read_inputs(_, _, _)
read_inputs(b, pos, n) ==
    IF n = 0 THEN Read(<<>>, pos)
    ELSE Then(read_input(b, pos), LAMBDA h, p1 :
         Then(read_inputs(b, p1, n - 1), LAMBDA t, p2 : Read(<<h>> \o t, p2)))

read_output(b, pos) ==
    Then(read_uint(b, pos, 1), LAMBDA t, p1 :
         IF t = OUTPUT_BASIC
         THEN Then(read_uint(b, p1, 8), LAMBDA amount, p2 :
              Then(read_bytes(b, p2, ED25519_ADDRESS_LENGTH), LAMBDA address, p3 :
                   Read(BasicOutput(amount, address), p3)))
         ELSE IF t = OUTPUT_TREASURY
         THEN Then(read_uint(b, p1, 8), LAMBDA amount, p2 : Read(TreasuryOutput(amount), p2))
         ELSE Fail)

RECURSIVE read_outputs(_, _, _)
read_outputs(b, pos, n) ==
    IF n = 0 THEN Read(<<>>, pos)
    ELSE Then(read_output(b, pos), LAMBDA h, p1 :
         Then(read_outputs(b, p1, n - 1), LAMBDA t, p2 : Read(<<h>> \o t, p2)))

read_signature(b, pos) ==
    Then(read_bytes(b, pos, PUBLIC_KEY_LENGTH), LAMBDA k, p1 :
    Then(read_bytes(b, p1, SIGNATURE_LENGTH), LAMBDA g, p2 :
         Read([public_key |-> k, signature |-> g], p2)))

RECURSIVE read_signatures(_, _, _)
read_signatures(b, pos, n) ==
    IF n = 0 THEN Read(<<>>, pos)
    ELSE Then(read_signature(b, pos), LAMBDA h, p1 :
         Then(read_signatures(b, p1, n - 1), LAMBDA t, p2 : Read(<<h>> \o t, p2)))

read_unlock(b, pos) ==
    Then(read_uint(b, pos, 1), LAMBDA t, p1 :
         IF t = UNLOCK_SIGNATURE
         THEN Then(read_signature(b, p1), LAMBDA g, p2 :
                   Read(SignatureUnlock(g.public_key, g.signature), p2))
         ELSE IF t = UNLOCK_REFERENCE
         THEN Then(read_uint(b, p1, 2), LAMBDA ix, p2 : Read(ReferenceUnlock(ix), p2))
         ELSE Fail)

RECURSIVE read_unlocks(_, _, _)
read_unlocks(b, pos, n) ==
    IF n = 0 THEN Read(<<>>, pos)
    ELSE Then(read_unlock(b, pos), LAMBDA h, p1 :
         Then(read_unlocks(b, p1, n - 1), LAMBDA t, p2 : Read(<<h>> \o t, p2)))

read_tagged_data(b, pos) ==
    Then(read_uint(b, pos, 1), LAMBDA n, p1 :
    Then(read_bytes(b, p1, n), LAMBDA tag, p2 :
    Then(read_uint(b, p2, 4), LAMBDA m, p3 :
    Then(read_bytes(b, p3, m), LAMBDA data, p4 :
         Read(TaggedDataPayload(tag, data), p4)))))

\* The optional payload of an essence: its length (0: none), then the payload.
read_optional_payload(b, pos) ==
    Then(read_uint(b, pos, 4), LAMBDA n, p1 :
         IF n = 0 THEN Read(None, p1)
         ELSE Then(read_uint(b, p1, 1), LAMBDA k, p2 :
                   IF k # TAGGED_DATA_KIND THEN Fail
                   ELSE Then(read_tagged_data(b, p2), LAMBDA p, p3 :
                             IF p3 = p1 + n THEN Read(p, p3) ELSE Fail)))

\* A list: its count, then its elements.
counted_inputs(b, pos) == Then(read_uint(b, pos, 2), LAMBDA n, p : read_inputs(b, p, n))
counted_outputs(b, pos) == Then(read_uint(b, pos, 2), LAMBDA n, p : read_outputs(b, p, n))
counted_unlocks(b, pos) == Then(read_uint(b, pos, 2), LAMBDA n, p : read_unlocks(b, p, n))
counted_ids(b, pos) == Then(read_uint(b, pos, 1), LAMBDA n, p : read_ids(b, p, n))
counted_bytes(b, pos) == Then(read_uint(b, pos, 1), LAMBDA n, p : read_bytes(b, p, n))
counted_signatures(b, pos) ==
    Then(read_uint(b, pos, 1), LAMBDA n, p : read_signatures(b, p, n))

read_transaction_essence(b, pos) ==
    Then(read_uint(b, pos, 8), LAMBDA network_id, p1 :
    Then(read_id(b, p1), LAMBDA inputs_commitment, p2 :
    Then(counted_inputs(b, p2), LAMBDA inputs, p3 :
    Then(counted_outputs(b, p3), LAMBDA outputs, p4 :
    Then(read_optional_payload(b, p4), LAMBDA embedded, p5 :
         Read([network_id |-> network_id, inputs_commitment |-> inputs_commitment,
               inputs |-> inputs, outputs |-> outputs, payload |-> embedded], p5))))))

read_milestone_essence(b, pos) ==
    Then(read_uint(b, pos, 4), LAMBDA index, p1 :
    Then(read_uint(b, p1, 8), LAMBDA timestamp, p2 :
    Then(read_uint(b, p2, 1), LAMBDA protocol_version, p3 :
    Then(read_id(b, p3), LAMBDA previous_milestone_id, p4 :
    Then(counted_ids(b, p4), LAMBDA parents, p5 :
    Then(read_id(b, p5), LAMBDA inclusion_merkle_root, p6 :
    Then(read_id(b, p6), LAMBDA applied_merkle_root, p7 :
    Then(counted_bytes(b, p7), LAMBDA options, p8 :
         Read([index |-> index, timestamp |-> timestamp,
               protocol_version |-> protocol_version,
               previous_milestone_id |-> previous_milestone_id, parents |-> parents,
               inclusion_merkle_root |-> inclusion_merkle_root,
               applied_merkle_root |-> applied_merkle_root, options |-> options],
              p8)))))))))

\* The Result of a reader.
decoded(r) == IF r.ok THEN Ok(r.value) ELSE Err("DecodeError")

unpack_treasury_transaction(b, params) ==
    decoded(Then(read_input(b, 2), LAMBDA input, p1 :
            Then(read_output(b, p1), LAMBDA output, p2 :
                 IF /\ input.type = "Treasury"
                    /\ output.type = "Treasury"
                    /\ output.amount <= params.token_supply
                 THEN Read(TreasuryTransactionPayload(input, output), p2)
                 ELSE Fail)))

unpack_tagged_data(b) == decoded(read_tagged_data(b, 2))

unpack_transaction(b, params) ==
    decoded(Then(read_transaction_essence(b, 2), LAMBDA essence, p1 :
            Then(counted_unlocks(b, p1), LAMBDA unlocks, p2 :
                 IF /\ finish(essence, params).tag = "Ok"
                    /\ unlocks_new(unlocks).tag = "Ok"
                    /\ transaction_payload_new(essence, unlocks).tag = "Ok"
                 THEN Read(TransactionPayload(essence, unlocks), p2)
                 ELSE Fail)))

unpack_milestone(b, params) ==
    decoded(Then(read_milestone_essence(b, 2), LAMBDA essence, p1 :
            Then(counted_signatures(b, p1), LAMBDA signatures, p2 :
                 IF /\ milestone_essence_new(essence).tag = "Ok"
                    /\ signatures # <<>>
                 THEN Read(MilestonePayload(essence, signatures), p2)
                 ELSE Fail)))

\* unpack(bytes, protocol_parameters): dispatch on the kind tag.
unpack(b, params) ==
    IF b = <<>> THEN Err("DecodeError")
    ELSE CASE b[1] = TREASURY_TRANSACTION_KIND -> unpack_treasury_transaction(b, params)
           [] b[1] = TAGGED_DATA_KIND -> unpack_tagged_data(b)
           [] b[1] = TRANSACTION_KIND -> unpack_transaction(b, params)
           [] b[1] = MILESTONE_KIND -> unpack_milestone(b, params)
           [] OTHER -> Err("DecodeError")

----------------------------------------------------------------------------
(* Building, packing and unpacking payloads *)

ProtocolParameters ==
    [network_id |-> NETWORK_ID, token_supply |-> TOKEN_SUPPLY,
     protocol_version |-> PROTOCOL_VERSION]

\* Sequences over S of length 1..n.
SeqsUpTo(S, n) == UNION {[1..k -> S] : k \in 1..n}

CandidateInputs == {UtxoInput(Id(1), 0), UtxoInput(Id(1), 1), UtxoInput(Id(2), 0)}

CandidateOutputs ==
    { BasicOutput(1000000, Fixed(ED25519_ADDRESS_LENGTH, 3)),
      BasicOutput(1, Fixed(ED25519_ADDRESS_LENGTH, 4)),
      BasicOutput(0, Fixed(ED25519_ADDRESS_LENGTH, 4)) }

CandidateUnlocks ==
    { SignatureUnlock(Ed25519Signature(5).public_key, Ed25519Signature(5).signature),
      ReferenceUnlock(0) }

CandidateTaggedData ==
    { TaggedDataPayload(tag, data) :
        tag \in {<<>>, Fixed(32, 6)}, data \in {<<>>, <<1, 2, 3>>} }

CandidateEssences ==
    { [network_id |-> NETWORK_ID, inputs_commitment |-> Id(7), inputs |-> inputs,
       outputs |-> outputs, payload |-> embedded] :
        inputs \in SeqsUpTo(CandidateInputs, MaxInputs),
        outputs \in SeqsUpTo(CandidateOutputs, MaxOutputs),
        embedded \in {None, TaggedDataPayload(<<>>, <<1, 2, 3>>)} }

CandidateMilestoneEssences ==
    { [index |-> index, timestamp |-> 0, protocol_version |-> PROTOCOL_VERSION,
       previous_milestone_id |-> Id(1), parents |-> parents,
       inclusion_merkle_root |-> Id(3), applied_merkle_root |-> Id(4), options |-> <<>>] :
        index \in {0, 1}, parents \in {<<Id(1)>>, <<Id(1), Id(2)>>, <<Id(2), Id(1)>>} }

\* The payloads the builders accept.
ValidPayloads ==
    { TransactionPayload(e, u) :
        e \in {c \in CandidateEssences : finish(c, ProtocolParameters).tag = "Ok"},
        u \in {c \in SeqsUpTo(CandidateUnlocks, MaxInputs) : unlocks_new(c).tag = "Ok"} }
    \cup { MilestonePayload(e, g) :
            e \in {c \in CandidateMilestoneEssences : milestone_essence_new(c).tag = "Ok"},
            g \in {<<Ed25519Signature(5)>>, <<Ed25519Signature(5), Ed25519Signature(6)>>} }
    \cup CandidateTaggedData
    \cup { TreasuryTransactionPayload(TreasuryInput(Id(s)), TreasuryOutput(a)) :
            s \in {1, 2}, a \in {1, 1000000} }

\* A payload is built (its builders succeed).
new_payload(p) ==
    /\ payload = None
    /\ p.variant = "Transaction" => transaction_payload_new(p.essence, p.unlocks).tag = "Ok"
    /\ payload' = Some(p)
    /\ packed' = None
    /\ predicted' = None
    /\ unpacked' = None
    /\ UNCHANGED nonCodecVars

\* payload.pack_to_vec()
pack_to_vec ==
    /\ payload # None
    /\ packed = None
    /\ packed' = Some(pack(payload.value))
    /\ UNCHANGED <<payload, predicted, unpacked, nonCodecVars>>

\* payload.packed_len()
call_packed_len ==
    /\ payload # None
    /\ predicted = None
    /\ predicted' = Some(packed_len(payload.value))
    /\ UNCHANGED <<payload, packed, unpacked, nonCodecVars>>

\* PackableExt::unpack_verified(packed, &protocol_parameters)
unpack_verified ==
    /\ packed # None
    /\ unpacked = None
    /\ unpacked' = unpack(packed.value, ProtocolParameters)
    /\ UNCHANGED <<payload, packed, predicted, nonCodecVars>>

\* The test ends: its values are dropped.
drop_payload ==
    /\ payload # None
    /\ payload' = None
    /\ packed' = None
    /\ predicted' = None
    /\ unpacked' = None
    /\ UNCHANGED nonCodecVars

InitCodec ==
    /\ addresses = <<>>
    /\ WalletIdle
    /\ AccountIdle
    /\ BuilderIdle
    /\ CodecIdle
    /\ UnlockIdle
    /\ EssenceIdle
    /\ ConversionIdle
    /\ OrderIdle
    /\ RuntimeIdle

NextCodec ==
    \/ \E p \in ValidPayloads : new_payload(p)
    \/ pack_to_vec
    \/ call_packed_len
    \/ unpack_verified
    \/ drop_payload

SpecCodec == InitCodec /\ [][NextCodec]_vars

----------------------------------------------------------------------------
(* Assembling and validating an unlock list *)

UnlockCandidates ==
    { SignatureUnlock(Ed25519Signature(5).public_key, Ed25519Signature(5).signature),
      SignatureUnlock(Ed25519Signature(6).public_key, Ed25519Signature(6).signature),
      ReferenceUnlock(0), ReferenceUnlock(1), ReferenceUnlock(2) }

\* vec![.., u]: the caller adds one unlock to the list it will validate.
push_unlock(u) ==
    /\ checked_unlocks = None
    /\ Len(unlock_blocks) < MaxUnlocks
    /\ unlock_blocks' = Append(unlock_blocks, u)
    /\ UNCHANGED <<checked_unlocks, nonUnlockVars>>

\* Unlocks::new(unlock_blocks)
unlocks_new_call ==
    /\ checked_unlocks = None
    /\ unlock_blocks # <<>>
    /\ checked_unlocks' = unlocks_new(unlock_blocks)
    /\ UNCHANGED <<unlock_blocks, nonUnlockVars>>

\* The caller is done with the list.
drop_unlocks ==
    /\ checked_unlocks # None
    /\ unlock_blocks' = <<>>
    /\ checked_unlocks' = None
    /\ UNCHANGED nonUnlockVars

InitUnlocks ==
    /\ addresses = <<>>
    /\ WalletIdle
    /\ AccountIdle
    /\ BuilderIdle
    /\ CodecIdle
    /\ UnlockIdle
    /\ EssenceIdle
    /\ ConversionIdle
    /\ OrderIdle
    /\ RuntimeIdle

NextUnlocks ==
    \/ \E u \in UnlockCandidates : push_unlock(u)
    \/ unlocks_new_call
    \/ drop_unlocks

SpecUnlocks == InitUnlocks /\ [][NextUnlocks]_vars

----------------------------------------------------------------------------
(* Building a transaction essence *)

\* RegularTransactionEssence::builder(network_id, inputs_commitment)
essence_builder_new(network_id) ==
    /\ essence_builder = None
    /\ finished = None
    /\ essence_builder' =
          Some([network_id |-> network_id, inputs_commitment |-> Id(7),
                inputs |-> <<>>, outputs |-> <<>>, payload |-> None])
    /\ UNCHANGED <<finished, nonEssenceVars>>

\* builder.add_input(input)
add_input(i) ==
    /\ essence_builder # None
    /\ Len(essence_builder.value.inputs) < MaxInputs
    /\ essence_builder' =
          Some([essence_builder.value EXCEPT !.inputs = Append(@, i)])
    /\ UNCHANGED <<finished, nonEssenceVars>>

\* builder.add_output(output)
add_output(o) ==
    /\ essence_builder # None
    /\ Len(essence_builder.value.outputs) < MaxOutputs
    /\ essence_builder' =
          Some([essence_builder.value EXCEPT !.outputs = Append(@, o)])
    /\ UNCHANGED <<finished, nonEssenceVars>>

\* builder.with_payload(payload)
with_payload(p) ==
    /\ essence_builder # None
    /\ essence_builder' = Some([essence_builder.value EXCEPT !.payload = p])
    /\ UNCHANGED <<finished, nonEssenceVars>>

\* builder.finish_with_params(&protocol_parameters): the builder is consumed; the
\* essence it described is remembered for the properties.
finish_call ==
    /\ essence_builder # None
    /\ finished' = [described |-> essence_builder.value,
                    result |-> finish(essence_builder.value, ProtocolParameters)]
    /\ essence_builder' = None
    /\ UNCHANGED nonEssenceVars

\* The result is dropped.
drop_essence ==
    /\ finished # None
    /\ finished' = None
    /\ UNCHANGED <<essence_builder, nonEssenceVars>>

InitEssence ==
    /\ addresses = <<>>
    /\ WalletIdle
    /\ AccountIdle
    /\ BuilderIdle
    /\ CodecIdle
    /\ UnlockIdle
    /\ EssenceIdle
    /\ ConversionIdle
    /\ OrderIdle
    /\ RuntimeIdle

NextEssence ==
    \/ \E n \in {NETWORK_ID, NETWORK_ID + 1} : essence_builder_new(n)
    \/ \E i \in CandidateInputs : add_input(i)
    \/ \E o \in CandidateOutputs : add_output(o)
    \/ \E p \in CandidateTaggedData : with_payload(p)
    \/ finish_call
    \/ drop_essence

SpecEssence == InitEssence /\ [][NextEssence]_vars

----------------------------------------------------------------------------
(* Conversions between node responses, domain types and their projections *)

MILESTONE_MERKLE_PROOF_LENGTH == 32
MILESTONE_PUBLIC_KEY_LENGTH == 32

\* <[u8; n]>::try_from(slice): the slice itself when it has exactly n bytes.
try_into_array(bytes, n) ==
    IF Len(bytes) = n THEN Ok(bytes) ELSE Err("TryFromSliceError")

\* to_string() of an id: two hex digits per byte.
to_string(bytes) == Flatten([i \in DOMAIN bytes |-> <<bytes[i] \div 16, bytes[i] % 16>>])

\* The bech32 character set, by 5-bit value: "qpzry9x8gf2tvdw0s3jn54khce6mua7l".
Bech32Charset ==
    <<26, 25, 35, 27, 34, 9, 33, 8, 16, 15, 2, 29, 31, 13, 32, 0,
      28, 3, 19, 23, 5, 4, 20, 17, 12, 14, 6, 22, 30, 10, 7, 21>>

\* The data part of an Ed25519 address: its kind byte (0) and hash, in base32.
bech32_chars(data) == [i \in DOMAIN data |-> Bech32Charset[data[i] + 1]]

bech32_data(bytes) == bech32_chars(to_base32(<<0>> \o bytes))

\* address.to_bech32(hrp): the prefix, the separator '1' and the data part (the
\* six checksum characters that follow are left out).
to_bech32(hrp, bytes) == hrp \o <<1>> \o bech32_data(bytes)

OutputMetadata(transaction_id, message_id, is_spent) ==
    [kind |-> "OutputMetadata", transaction_id |-> transaction_id,
     message_id |-> message_id, output_index |-> 0, amount |-> 40, is_spent |-> is_spent]

\* impl TryFrom<OutputMetadata> for AddressOutput
address_output_try_from(output) ==
    IF try_into_array(output.transaction_id, ID_LENGTH).tag # "Ok"
    THEN Err("invalid transaction id length")
    ELSE IF try_into_array(output.message_id, ID_LENGTH).tag # "Ok"
    THEN Err("invalid message id length")
    ELSE Ok([transaction_id |-> try_into_array(output.transaction_id, ID_LENGTH).value,
             message_id |-> try_into_array(output.message_id, ID_LENGTH).value,
             index |-> output.output_index, amount |-> output.amount,
             is_spent |-> output.is_spent])

RustMilestonePayloadEssence(merkle_proof, public_keys) ==
    [kind |-> "RustMilestonePayloadEssence", index |-> 1, timestamp |-> 0,
     parent1 |-> Id(1), parent2 |-> Id(2),
     merkle_proof |-> merkle_proof, public_keys |-> public_keys]

\* impl TryFrom<RustMilestonePayloadEssence> for MilestonePayloadEssence: the
\* merkle proof through `?`, then each public key through unwrap_or_else(panic).
milestone_payload_essence_try_from(essence) ==
    IF try_into_array(essence.merkle_proof, MILESTONE_MERKLE_PROOF_LENGTH).tag # "Ok"
    THEN Err("TryFromSliceError")
    ELSE IF \E i \in DOMAIN essence.public_keys :
               try_into_array(essence.public_keys[i], MILESTONE_PUBLIC_KEY_LENGTH).tag # "Ok"
    THEN Panic
    ELSE Ok([index |-> essence.index, timestamp |-> essence.timestamp,
             parent1 |-> to_string(essence.parent1),
             parent2 |-> to_string(essence.parent2),
             merkle_proof |-> essence.merkle_proof,
             public_keys |-> essence.public_keys])

\* ---- Projections (DTO values) into domain types ----

Input(transaction_id, index) == [transaction_id |-> transaction_id, index |-> index]
Output(address, amount) == [address |-> address, amount |-> amount]
Indexation(index, data) == [index |-> index, data |-> data]
Payload(transaction, milestone, indexation) ==
    [transaction |-> transaction, milestone |-> milestone, indexation |-> indexation]
TransactionPayloadEssence(inputs, outputs, embedded) ==
    [inputs |-> inputs, outputs |-> outputs, payload |-> embedded]
Transaction(essence, blocks) == [essence |-> essence, unlock_blocks |-> blocks]
UnlockBlock(signature, reference) == [signature |-> signature, reference |-> reference]

\* FromStr of an id or an address: an even number of hex digits, two per byte.
from_hex(str) ==
    IF Len(str) % 2 # 0 \/ \E i \in DOMAIN str : str[i] \notin HexDigits
    THEN Err("FromHexError")
    ELSE Ok([i \in 1..(Len(str) \div 2) |-> 16 * str[2 * i - 1] + str[2 * i]])

\* RustTransationId::from_str, RustEd25519Address::from_str: 32 bytes in hex.
from_str(str) ==
    IF from_hex(str).tag = "Ok" /\ Len(str) = 2 * ID_LENGTH
    THEN from_hex(str)
    ELSE Err("FromHexError")

\* The value of an ASCII byte as a hex digit, -1 if it is none.
ascii_hex_value(b) ==
    IF b \in 48..57 THEN b - 48
    ELSE IF b \in 97..102 THEN b - 87
    ELSE IF b \in 65..70 THEN b - 55
    ELSE -1

\* hex::decode(data): data is read as ASCII text.
hex_decode(data) ==
    IF Len(data) % 2 # 0 THEN Err("OddLength")
    ELSE IF \E i \in DOMAIN data : ascii_hex_value(data[i]) < 0
    THEN Err("InvalidHexCharacter")
    ELSE Ok([i \in 1..(Len(data) \div 2) |->
                16 * ascii_hex_value(data[2 * i - 1]) + ascii_hex_value(data[2 * i])])

\* hex::decode_to_slice(data, &mut [0u8; n])
decode_to_slice(data, n) ==
    IF Len(data) % 2 # 0 THEN Err("OddLength")
    ELSE IF Len(data) \div 2 # n THEN Err("InvalidStringLength")
    ELSE hex_decode(data)

\* One input of the essence: RustUTXOInput::new(from_str(..).unwrap_or_else(panic), index).
input_try_from(input) ==
    IF from_str(input.transaction_id).tag # "Ok" THEN Panic
    ELSE Ok(UtxoInput(from_str(input.transaction_id).value, input.index))

\* One output of the essence: RustSignatureLockedSingleOutput::new(address, amount),
\* which refuses the amount 0; both failures end in panic!.
output_try_from(output) ==
    IF from_str(output.address).tag # "Ok" THEN Panic
    ELSE IF output.amount = 0 THEN Panic
    ELSE Ok(BasicOutput(output.amount, from_str(output.address).value))

\* RustIndexationPayload::new(payload.indexation.as_ref().unwrap_or_else(panic)[0] ..)
indexation_try_from(p) ==
    IF p.indexation = None THEN Panic
    ELSE IF p.indexation.value = <<>> THEN Panic
    ELSE Ok(TaggedDataPayload(p.indexation.value[1].index, p.indexation.value[1].data))

\* builder.finish(): the essence's rules; this essence carries the network's id.
builder_finish(inputs, outputs, embedded) ==
    finish([network_id |-> ProtocolParameters.network_id, inputs_commitment |-> Id(7),
            inputs |-> inputs, outputs |-> outputs, payload |-> embedded],
           ProtocolParameters)

\* impl TryFrom<TransactionPayloadEssence> for RustTransactionPayloadEssence
rust_essence_try_from(essence) ==
    IF \E i \in DOMAIN essence.inputs : input_try_from(essence.inputs[i]) = Panic
    THEN Panic
    ELSE IF \E i \in DOMAIN essence.outputs : output_try_from(essence.outputs[i]) = Panic
    THEN Panic
    ELSE IF essence.payload # None /\ indexation_try_from(essence.payload.value) = Panic
    THEN Panic
    ELSE builder_finish(
            [i \in DOMAIN essence.inputs |-> input_try_from(essence.inputs[i]).value],
            [i \in DOMAIN essence.outputs |-> output_try_from(essence.outputs[i]).value],
            IF essence.payload = None THEN None
            ELSE indexation_try_from(essence.payload.value).value)

\* impl TryFrom<Ed25519Signature> for RustSignatureUnlock
signature_unlock_try_from(signature) ==
    IF decode_to_slice(signature.public_key, PUBLIC_KEY_LENGTH).tag # "Ok"
    THEN decode_to_slice(signature.public_key, PUBLIC_KEY_LENGTH)
    ELSE IF hex_decode(signature.signature).tag # "Ok"
    THEN hex_decode(signature.signature)
    ELSE Ok(SignatureUnlock(decode_to_slice(signature.public_key, PUBLIC_KEY_LENGTH).value,
                            hex_decode(signature.signature).value))

\* impl TryFrom<UnlockBlock> for RustUnlockBlock
unlock_block_try_from(block) ==
    IF block.signature # None THEN signature_unlock_try_from(block.signature.value)
    ELSE IF block.reference = None THEN Panic
    ELSE Ok(ReferenceUnlock(block.reference.value))

\* The first result of a list that is not Ok, or Ok(the values).
collect(results) ==
    IF \E i \in DOMAIN results : results[i].tag # "Ok"
    THEN results[CHOOSE i \in DOMAIN results :
                    /\ results[i].tag # "Ok"
                    /\ \A j \in 1..(i - 1) : results[j].tag = "Ok"]
    ELSE Ok([i \in DOMAIN results |-> results[i].value])

\* RustTransactionPayload::builder() ... finish()
transaction_finish(essence, blocks) ==
    IF unlocks_new(blocks).tag # "Ok" THEN unlocks_new(blocks)
    ELSE transaction_payload_new(essence, blocks)

\* The transaction arm of payload_try_from: essence?, each unlock block?, finish()?.
transaction_try_from(transaction) ==
    IF rust_essence_try_from(transaction.essence).tag # "Ok"
    THEN rust_essence_try_from(transaction.essence)
    ELSE IF collect([i \in DOMAIN transaction.unlock_blocks |->
                        unlock_block_try_from(transaction.unlock_blocks[i])]).tag # "Ok"
    THEN collect([i \in DOMAIN transaction.unlock_blocks |->
                     unlock_block_try_from(transaction.unlock_blocks[i])])
    ELSE transaction_finish(
            rust_essence_try_from(transaction.essence).value,
            collect([i \in DOMAIN transaction.unlock_blocks |->
                        unlock_block_try_from(transaction.unlock_blocks[i])]).value)

\* impl TryFrom<Payload> for RustPayload
payload_try_from(p) ==
    IF p.transaction # None
    THEN IF p.transaction.value = <<>> THEN Panic
         ELSE transaction_try_from(p.transaction.value[1])
    ELSE indexation_try_from(p)

\* ---- Domain types into projections ----

\* impl TryFrom<RustTransactionPayloadEssence> for TransactionPayloadEssence, with
\* the prefix it reads from BECH32_HRP; each `else { unreachable!() }` is a panic.
transaction_payload_essence_try_from(essence, hrp) ==
    IF \E i \in DOMAIN essence.inputs : essence.inputs[i].type # "Utxo" THEN Panic
    ELSE IF \E i \in DOMAIN essence.outputs : essence.outputs[i].type # "Basic" THEN Panic
    ELSE IF essence.payload # None /\ essence.payload.variant # "TaggedData" THEN Panic
    ELSE Ok(TransactionPayloadEssence(
               [i \in DOMAIN essence.inputs |->
                   Input(to_string(essence.inputs[i].transaction_id),
                         essence.inputs[i].output_index)],
               [i \in DOMAIN essence.outputs |->
                   Output(to_bech32(hrp, essence.outputs[i].address),
                          essence.outputs[i].amount)],
               IF essence.payload = None THEN None
               ELSE Some(Payload(None, None,
                                 Some(<<Indexation(essence.payload.tag,
                                                   essence.payload.data)>>)))))

\* The mutant of the next: a signature unlock's projection also names a reference.
dto_unlock_block_both(unlock_block) ==
    IF unlock_block.type = "Signature"
    THEN Ok(UnlockBlock(Some([public_key |-> unlock_block.public_key,
                              signature |-> unlock_block.signature]), Some(0)))
    ELSE Ok(UnlockBlock(None, Some(unlock_block.index)))

\* impl TryFrom<RustUnlockBlock> for UnlockBlock
dto_unlock_block_try_from(unlock_block) ==
    IF unlock_block.type = "Signature"
    THEN IF try_into_array(unlock_block.public_key, PUBLIC_KEY_LENGTH).tag # "Ok"
         THEN Panic
         ELSE Ok(UnlockBlock(Some([public_key |-> unlock_block.public_key,
                                   signature |-> unlock_block.signature]), None))
    ELSE IF unlock_block.type = "Reference"
    THEN Ok(UnlockBlock(None, Some(unlock_block.index)))
    ELSE Panic

RustMessage(p) ==
    [id |-> Id(9), network_id |-> NETWORK_ID, parent1 |-> Id(1), parent2 |-> Id(2),
     payload |-> p, nonce |-> 0]

\* The arms of `match payload` in Message::try_from: Ok(the Option<Payload>),
\* or what `?`, expect or a panic inside an arm ends the conversion with.
message_payload(p, hrp) ==
    IF p = None THEN Ok(None)
    ELSE IF p.value.variant = "Transaction"
    THEN IF transaction_payload_essence_try_from(p.value.essence, hrp).tag # "Ok"
         THEN transaction_payload_essence_try_from(p.value.essence, hrp)
         ELSE IF \E i \in DOMAIN p.value.unlocks :
                    dto_unlock_block_try_from(p.value.unlocks[i]).tag # "Ok"
         THEN Panic
         ELSE Ok(Some(Payload(
                 Some(<<Transaction(
                          transaction_payload_essence_try_from(p.value.essence, hrp).value,
                          [i \in DOMAIN p.value.unlocks |->
                              dto_unlock_block_try_from(p.value.unlocks[i]).value])>>),
                 None, None)))
    ELSE IF p.value.variant = "TaggedData"
    THEN Ok(Some(Payload(None, None, Some(<<Indexation(p.value.tag, p.value.data)>>))))
    ELSE IF p.value.variant = "Milestone"
    THEN IF milestone_payload_essence_try_from(p.value.essence).tag # "Ok"
         THEN milestone_payload_essence_try_from(p.value.essence)
         ELSE Ok(Some(Payload(
                 None,
                 Some(<<[essence |-> milestone_payload_essence_try_from(p.value.essence).value,
                         signatures |-> p.value.signatures]>>),
                 None)))
    ELSE Ok(None)

\* impl TryFrom<RustMessage> for Message
message_try_from(msg, hrp) ==
    IF message_payload(msg.payload, hrp).tag # "Ok" THEN message_payload(msg.payload, hrp)
    ELSE Ok([message_id |-> to_string(msg.id), network_id |-> msg.network_id,
             parent1 |-> to_string(msg.parent1), parent2 |-> to_string(msg.parent2),
             payload |-> message_payload(msg.payload, hrp).value, nonce |-> msg.nonce])

\* Byte strings of 31, 32 and 33 bytes.
ByteStrings == {Fixed(n, 8) : n \in {31, 32, 33}}

OutputMetadatas ==
    { OutputMetadata(t, m, is_spent) :
        t \in ByteStrings, m \in ByteStrings, is_spent \in BOOLEAN }

RustMilestonePayloadEssences ==
    { RustMilestonePayloadEssence(proof, keys) :
        proof \in ByteStrings,
        keys \in {<<>>} \cup UNION {[1..n -> ByteStrings] : n \in 1..MaxPublicKeys} }

\* Projections a caller may pass in.
InputDtos ==
    { Input(to_string(Id(1)), 0), Input(to_string(Id(1)), 1), Input(<<29, 1>>, 0) }

OutputDtos ==
    { Output(to_string(Fixed(ED25519_ADDRESS_LENGTH, 3)), 1000000),
      Output(to_string(Fixed(ED25519_ADDRESS_LENGTH, 3)), 0),
      Output(to_bech32(atoi1, Fixed(ED25519_ADDRESS_LENGTH, 3)), 1000000) }

EmbeddedPayloadDtos ==
    { None,
      Some(Payload(None, None, Some(<<Indexation(<<18, 13>>, <<1, 2, 3>>)>>))),
      Some(Payload(None, None, Some(<<>>))),
      Some(Payload(None, None, None)) }

TransactionPayloadEssences ==
    { TransactionPayloadEssence(inputs, outputs, embedded) :
        inputs \in SeqsUpTo(InputDtos, MaxInputs),
        outputs \in SeqsUpTo(OutputDtos, MaxOutputs),
        embedded \in EmbeddedPayloadDtos }

UnlockBlocks ==
    { UnlockBlock(Some(Ed25519Signature(5)), None),
      UnlockBlock(Some([public_key |-> Fixed(PUBLIC_KEY_LENGTH, 48),
                        signature |-> Fixed(SIGNATURE_LENGTH, 48)]), None),
      UnlockBlock(Some(Ed25519Signature(5)), Some(0)),
      UnlockBlock(None, Some(0)),
      UnlockBlock(None, None) }

Payloads ==
    { Payload(Some(<<Transaction(essence, blocks)>>), None, None) :
        essence \in
          { TransactionPayloadEssence(inputs, <<Output(to_string(Fixed(32, 3)), 1000000)>>, None) :
              inputs \in { <<Input(to_string(Id(1)), 0)>>,
                           <<Input(to_string(Id(1)), 0), Input(to_string(Id(1)), 0)>>,
                           <<Input(<<29, 1>>, 0)>> } },
        blocks \in SeqsUpTo({UnlockBlock(None, Some(0)), UnlockBlock(None, None),
                             UnlockBlock(Some(Ed25519Signature(5)), None)}, 1) }
    \cup { Payload(Some(<<>>), None, None),
           Payload(None, None, Some(<<Indexation(<<18, 13>>, <<1, 2, 3>>)>>)),
           Payload(None, None, Some(<<>>)),
           Payload(None, Some(<<[essence |-> None, signatures |-> <<>>]>>), None),
           Payload(None, None, None) }

\* Domain values a caller may pass in.
RustTransactionPayloadEssences ==
    {c \in CandidateEssences : finish(c, ProtocolParameters).tag = "Ok"}

RustUnlockBlocks == CandidateUnlocks

RustPayloads ==
    { TransactionPayload(e, u) :
        e \in { [network_id |-> NETWORK_ID, inputs_commitment |-> Id(7), inputs |-> inputs,
                 outputs |-> <<BasicOutput(1000000, Fixed(ED25519_ADDRESS_LENGTH, 3))>>,
                 payload |-> None] :
                  inputs \in { <<UtxoInput(Id(1), 0)>>,
                               <<UtxoInput(Id(1), 0), UtxoInput(Id(1), 1)>>,
                               <<TreasuryInput(Id(2))>> } },
        u \in { <<SignatureUnlock(Ed25519Signature(5).public_key,
                                  Ed25519Signature(5).signature)>>,
                <<SignatureUnlock(Ed25519Signature(5).public_key,
                                  Ed25519Signature(5).signature), ReferenceUnlock(0)>> } }
    \cup { MilestonePayload(e, <<Fixed(SIGNATURE_LENGTH, 5)>>) :
             e \in { RustMilestonePayloadEssence(proof, <<Fixed(32, 8)>>) :
                       proof \in ByteStrings } }
    \cup CandidateTaggedData
    \cup { TreasuryTransactionPayload(TreasuryInput(Id(1)), TreasuryOutput(1)) }

RustMessages == {RustMessage(p) : p \in {None} \cup {Some(q) : q \in RustPayloads}}

\* The values a caller may hand to a conversion, with the type of each.
Subjects ==
    OutputMetadatas
    \cup RustMilestonePayloadEssences
    \cup {[kind |-> "TransactionPayloadEssence", value |-> e] : e \in TransactionPayloadEssences}
    \cup {[kind |-> "UnlockBlock", value |-> b] : b \in UnlockBlocks}
    \cup {[kind |-> "Payload", value |-> p] : p \in Payloads}
    \cup {[kind |-> "RustMessage", value |-> m] : m \in RustMessages}
    \cup {[kind |-> "RustTransactionPayloadEssence", value |-> e] :
             e \in RustTransactionPayloadEssences}
    \cup {[kind |-> "RustUnlockBlock", value |-> b] : b \in RustUnlockBlocks}

\* A caller holds the value it is about to convert.
take_subject(s) ==
    /\ subject = None
    /\ subject' = Some(s)
    /\ UNCHANGED <<converted, reconverted, restored, BECH32_HRP, nonConversionVars>>

\* AddressOutput::try_from(output)
address_output_try_from_call ==
    /\ subject # None
    /\ subject.value.kind = "OutputMetadata"
    /\ converted = None
    /\ converted' = address_output_try_from(subject.value)
    /\ UNCHANGED <<subject, reconverted, restored, BECH32_HRP, nonConversionVars>>

\* MilestonePayloadEssence::try_from(essence)
milestone_payload_essence_try_from_call ==
    /\ subject # None
    /\ subject.value.kind = "RustMilestonePayloadEssence"
    /\ converted = None
    /\ converted' = milestone_payload_essence_try_from(subject.value)
    /\ UNCHANGED <<subject, reconverted, restored, BECH32_HRP, nonConversionVars>>

\* RustTransactionPayloadEssence::try_from(essence)
rust_essence_try_from_call ==
    /\ subject # None
    /\ subject.value.kind = "TransactionPayloadEssence"
    /\ converted = None
    /\ converted' = rust_essence_try_from(subject.value.value)
    /\ UNCHANGED <<subject, reconverted, restored, BECH32_HRP, nonConversionVars>>

\* RustUnlockBlock::try_from(block)
unlock_block_try_from_call ==
    /\ subject # None
    /\ subject.value.kind = "UnlockBlock"
    /\ converted = None
    /\ converted' = unlock_block_try_from(subject.value.value)
    /\ UNCHANGED <<subject, reconverted, restored, BECH32_HRP, nonConversionVars>>

\* RustPayload::try_from(payload)
payload_try_from_call ==
    /\ subject # None
    /\ subject.value.kind = "Payload"
    /\ converted = None
    /\ converted' = payload_try_from(subject.value.value)
    /\ UNCHANGED <<subject, reconverted, restored, BECH32_HRP, nonConversionVars>>

\* Message::try_from(msg)
message_try_from_call ==
    /\ subject # None
    /\ subject.value.kind = "RustMessage"
    /\ converted = None
    /\ converted' = message_try_from(subject.value.value, BECH32_HRP)
    /\ UNCHANGED <<subject, reconverted, restored, BECH32_HRP, nonConversionVars>>

\* TransactionPayloadEssence::try_from(essence), the first time and once more
transaction_payload_essence_try_from_call ==
    /\ subject # None
    /\ subject.value.kind = "RustTransactionPayloadEssence"
    /\ reconverted = None
    /\ IF converted = None
       THEN /\ converted' =
                  transaction_payload_essence_try_from(subject.value.value, BECH32_HRP)
            /\ UNCHANGED reconverted
       ELSE /\ reconverted' =
                  transaction_payload_essence_try_from(subject.value.value, BECH32_HRP)
            /\ UNCHANGED converted
    /\ UNCHANGED <<subject, restored, BECH32_HRP, nonConversionVars>>

\* UnlockBlock::try_from(unlock_block)
dto_unlock_block_try_from_call ==
    /\ subject # None
    /\ subject.value.kind = "RustUnlockBlock"
    /\ converted = None
    /\ converted' = dto_unlock_block_try_from(subject.value.value)
    /\ UNCHANGED <<subject, reconverted, restored, BECH32_HRP, nonConversionVars>>

\* The projection is converted back: RustTransactionPayloadEssence::try_from or
\* RustUnlockBlock::try_from on the value the first conversion gave.
convert_back ==
    /\ subject # None
    /\ subject.value.kind \in {"RustTransactionPayloadEssence", "RustUnlockBlock"}
    /\ converted # None
    /\ converted.tag = "Ok"
    /\ restored = None
    /\ restored' = IF subject.value.kind = "RustUnlockBlock"
                   THEN unlock_block_try_from(converted.value)
                   ELSE rust_essence_try_from(converted.value)
    /\ UNCHANGED <<subject, converted, reconverted, BECH32_HRP, nonConversionVars>>

\* Some thread assigns the global: unsafe { BECH32_HRP = hrp }
set_bech32_hrp(hrp) ==
    /\ BECH32_HRP # hrp
    /\ BECH32_HRP' = hrp
    /\ UNCHANGED <<subject, converted, reconverted, restored, nonConversionVars>>

\* The caller is done with the value and with what it was converted to.
drop_subject ==
    /\ subject # None
    /\ subject' = None
    /\ converted' = None
    /\ reconverted' = None
    /\ restored' = None
    /\ UNCHANGED <<BECH32_HRP, nonConversionVars>>

InitConversions ==
    /\ addresses = <<>>
    /\ WalletIdle
    /\ AccountIdle
    /\ BuilderIdle
    /\ CodecIdle
    /\ UnlockIdle
    /\ EssenceIdle
    /\ ConversionIdle
    /\ OrderIdle
    /\ RuntimeIdle

NextConversions ==
    \/ \E s \in Subjects : take_subject(s)
    \/ address_output_try_from_call
    \/ milestone_payload_essence_try_from_call
    \/ rust_essence_try_from_call
    \/ unlock_block_try_from_call
    \/ payload_try_from_call
    \/ message_try_from_call
    \/ transaction_payload_essence_try_from_call
    \/ dto_unlock_block_try_from_call
    \/ convert_back
    \/ \E hrp \in {atoi1, iota1} : set_bech32_hrp(hrp)
    \/ drop_subject

SpecConversions == InitConversions /\ [][NextConversions]_vars

----------------------------------------------------------------------------
(* Comparing, ordering and hashing addresses *)

\* self.address.to_bech32(): the text form of the wrapped address, with the
\* prefix the library fixes.
address_to_bech32(a) == to_bech32(iota1, a.address)

\* The mutant of the next: the equality #[derive(PartialEq)] would give.
address_eq_derived(a, b) == a = b

\* impl PartialEq for Address
address_eq(a, b) == address_to_bech32(a) = address_to_bech32(b)

\* impl Ord for Address: str::cmp, byte by byte, a proper prefix first.
address_cmp(a, b) ==
    IF Less(address_to_bech32(a), address_to_bech32(b)) THEN "Less"
    ELSE IF Less(address_to_bech32(b), address_to_bech32(a)) THEN "Greater"
    ELSE "Equal"

\* impl PartialOrd for Address
address_partial_cmp(a, b) == Some(address_cmp(a, b))

\* impl Hash for Address: what the hasher is fed, after what it was fed before.
address_hash(a, state) == Append(state, address_to_bech32(a))

\* Addresses of an account: a few wrapped addresses, each with several balances,
\* key indexes and kinds.
Addresses ==
    { NewAddress(Hash(seed), balance, key_index, is_internal) :
        seed \in {1, 2, 30}, balance \in {0, 40}, key_index \in {0, 1},
        is_internal \in BOOLEAN }

take_addresses(a, b) ==
    /\ lhs = None
    /\ lhs' = Some(a)
    /\ rhs' = Some(b)
    /\ UNCHANGED <<equal, ordering, hashes, nonOrderVars>>

\* lhs == rhs
address_eq_call ==
    /\ lhs # None
    /\ equal = None
    /\ equal' = Some(address_eq(lhs.value, rhs.value))
    /\ UNCHANGED <<lhs, rhs, ordering, hashes, nonOrderVars>>

\* lhs.partial_cmp(&rhs)
address_partial_cmp_call ==
    /\ lhs # None
    /\ ordering = None
    /\ ordering' = address_partial_cmp(lhs.value, rhs.value)
    /\ UNCHANGED <<lhs, rhs, equal, hashes, nonOrderVars>>

\* lhs.hash(&mut h1); rhs.hash(&mut h2), with two fresh hashers
address_hash_call ==
    /\ lhs # None
    /\ hashes = None
    /\ hashes' = Some(<<address_hash(lhs.value, <<>>), address_hash(rhs.value, <<>>)>>)
    /\ UNCHANGED <<lhs, rhs, equal, ordering, nonOrderVars>>

drop_addresses ==
    /\ lhs # None
    /\ lhs' = None
    /\ rhs' = None
    /\ equal' = None
    /\ ordering' = None
    /\ hashes' = None
    /\ UNCHANGED nonOrderVars

InitOrder ==
    /\ addresses = <<>>
    /\ WalletIdle
    /\ AccountIdle
    /\ BuilderIdle
    /\ CodecIdle
    /\ UnlockIdle
    /\ EssenceIdle
    /\ ConversionIdle
    /\ OrderIdle
    /\ RuntimeIdle

NextOrder ==
    \/ \E a \in Addresses, b \in Addresses : take_addresses(a, b)
    \/ address_eq_call
    \/ address_partial_cmp_call
    \/ address_hash_call
    \/ drop_addresses

SpecOrder == InitOrder /\ [][NextOrder]_vars

----------------------------------------------------------------------------
(* The lazily initialised runtime and lazy_static! *)

\* The mutant of the next: a cell that lets a second caller initialise while the
\* first is still at it.
get_or_init_unsynchronized(cell) ==
    IF cell.state = "Complete" THEN "get" ELSE "initialize"

\* OnceCell::get_or_init: what a caller does on a cell in this state: take the
\* value, run the closure, or wait for the caller that is running it.
get_or_init_step(cell) ==
    IF cell.state = "Complete" THEN "get"
    ELSE IF cell.state = "Incomplete" THEN "initialize"
    ELSE "wait"

\* Once::call_once: the same, and a panic on a Once whose closure panicked.
call_once_step(once) ==
    IF once = "Complete" THEN "return"
    ELSE IF once = "Incomplete" THEN "run"
    ELSE IF once = "Poisoned" THEN "panic"
    ELSE "wait"

\* async_runtime::spawn(future) is called
spawn_call(t) ==
    /\ thread_pc[t] = "idle"
    /\ thread_pc' = [thread_pc EXCEPT ![t] = "get_or_init"]
    /\ UNCHANGED <<RUNTIME, runtimes_created, mutex, handle, spawned, VALUE, INIT,
                   init_runs, handed, nonRuntimeVars>>

\* RUNTIME.get_or_init(..): the cell is looked at
get_or_init(t) ==
    /\ thread_pc[t] = "get_or_init"
    /\ get_or_init_step(RUNTIME) # "wait"
    /\ IF get_or_init_step(RUNTIME) = "get"
       THEN /\ handle' = [handle EXCEPT ![t] = RUNTIME.value]
            /\ thread_pc' = [thread_pc EXCEPT ![t] = "lock"]
            /\ UNCHANGED RUNTIME
       ELSE /\ RUNTIME' = [RUNTIME EXCEPT !.state = "Running"]
            /\ thread_pc' = [thread_pc EXCEPT ![t] = "Runtime::new"]
            /\ UNCHANGED handle
    /\ UNCHANGED <<runtimes_created, mutex, spawned, VALUE, INIT, init_runs, handed,
                   nonRuntimeVars>>

\* The closure: Mutex::new(Runtime::new().expect(..)). A runtime is created and
\* the cell is set, or the expect panics and the cell is as it was before.
runtime_new(t, created) ==
    /\ thread_pc[t] = "Runtime::new"
    /\ IF created
       THEN /\ runtimes_created < MaxRuntimes
            /\ runtimes_created' = runtimes_created + 1
            /\ RUNTIME' = [state |-> "Complete", value |-> Some(runtimes_created + 1)]
            /\ handle' = [handle EXCEPT ![t] = Some(runtimes_created + 1)]
            /\ thread_pc' = [thread_pc EXCEPT ![t] = "lock"]
       ELSE /\ RUNTIME' = IF RUNTIME.state = "Complete" THEN RUNTIME ELSE Incomplete
            /\ thread_pc' = [thread_pc EXCEPT ![t] = "idle"]
            /\ UNCHANGED <<runtimes_created, handle>>
    /\ UNCHANGED <<mutex, spawned, VALUE, INIT, init_runs, handed, nonRuntimeVars>>

\* runtime.lock().expect(..)
runtime_lock(t) ==
    /\ thread_pc[t] = "lock"
    /\ mutex = None
    /\ mutex' = Some(t)
    /\ thread_pc' = [thread_pc EXCEPT ![t] = "spawn"]
    /\ UNCHANGED <<RUNTIME, runtimes_created, handle, spawned, VALUE, INIT, init_runs,
                   handed, nonRuntimeVars>>

\* .spawn(future), and the guard is dropped at the end of the statement
runtime_spawn(t) ==
    /\ thread_pc[t] = "spawn"
    /\ spawned' = spawned \cup {[thread |-> t, runtime |-> handle[t].value]}
    /\ mutex' = None
    /\ handle' = [handle EXCEPT ![t] = None]
    /\ thread_pc' = [thread_pc EXCEPT ![t] = "idle"]
    /\ UNCHANGED <<RUNTIME, runtimes_created, VALUE, INIT, init_runs, handed,
                   nonRuntimeVars>>

\* lazy_static!(init => type) is evaluated
lazy_static_call(t) ==
    /\ thread_pc[t] = "idle"
    /\ thread_pc' = [thread_pc EXCEPT ![t] = "call_once"]
    /\ handed' = [handed EXCEPT ![t] = None]
    /\ UNCHANGED <<RUNTIME, runtimes_created, mutex, handle, spawned, VALUE, INIT,
                   init_runs, nonRuntimeVars>>

\* INIT.call_once(..): the Once is looked at
call_once(t) ==
    /\ thread_pc[t] = "call_once"
    /\ call_once_step(INIT) # "wait"
    /\ IF call_once_step(INIT) = "return"
       THEN /\ thread_pc' = [thread_pc EXCEPT ![t] = "as_ref"]
            /\ UNCHANGED <<INIT, init_runs, handed>>
       ELSE IF call_once_step(INIT) = "run"
       THEN /\ INIT' = "Running"
            /\ init_runs' = init_runs + 1
            /\ thread_pc' = [thread_pc EXCEPT ![t] = "closure"]
            /\ UNCHANGED handed
       ELSE /\ handed' = [handed EXCEPT ![t] = Panic]
            /\ thread_pc' = [thread_pc EXCEPT ![t] = "idle"]
            /\ UNCHANGED <<INIT, init_runs>>
    /\ UNCHANGED <<RUNTIME, runtimes_created, mutex, handle, spawned, VALUE,
                   nonRuntimeVars>>

\* The closure: unsafe { VALUE = Some($init) }, or $init panics and the Once is poisoned.
closure(t, initialized) ==
    /\ thread_pc[t] = "closure"
    /\ IF initialized
       THEN /\ VALUE' = Some(init_runs)
            /\ thread_pc' = [thread_pc EXCEPT ![t] = "complete"]
            /\ UNCHANGED <<INIT, handed>>
       ELSE /\ INIT' = "Poisoned"
            /\ handed' = [handed EXCEPT ![t] = Panic]
            /\ thread_pc' = [thread_pc EXCEPT ![t] = "idle"]
            /\ UNCHANGED VALUE
    /\ UNCHANGED <<RUNTIME, runtimes_created, mutex, handle, spawned, init_runs,
                   nonRuntimeVars>>

\* call_once returns to the caller that ran the closure: the Once is complete.
call_once_complete(t) ==
    /\ thread_pc[t] = "complete"
    /\ INIT' = "Complete"
    /\ thread_pc' = [thread_pc EXCEPT ![t] = "as_ref"]
    /\ UNCHANGED <<RUNTIME, runtimes_created, mutex, handle, spawned, VALUE, init_runs,
                   handed, nonRuntimeVars>>

\* unsafe { VALUE.as_ref() }.expect("failed to get lazy static value")
as_ref(t) ==
    /\ thread_pc[t] = "as_ref"
    /\ handed' = [handed EXCEPT ![t] = IF VALUE = None THEN Panic ELSE Ok(VALUE.value)]
    /\ thread_pc' = [thread_pc EXCEPT ![t] = "idle"]
    /\ UNCHANGED <<RUNTIME, runtimes_created, mutex, handle, spawned, VALUE, INIT,
                   init_runs, nonRuntimeVars>>

InitRuntime ==
    /\ addresses = <<>>
    /\ WalletIdle
    /\ AccountIdle
    /\ BuilderIdle
    /\ CodecIdle
    /\ UnlockIdle
    /\ EssenceIdle
    /\ ConversionIdle
    /\ OrderIdle
    /\ RuntimeIdle

NextRuntime ==
    \/ \E t \in Threads : spawn_call(t)
    \/ \E t \in Threads : get_or_init(t)
    \/ \E t \in Threads, created \in BOOLEAN : runtime_new(t, created)
    \/ \E t \in Threads : runtime_lock(t)
    \/ \E t \in Threads : runtime_spawn(t)
    \/ \E t \in Threads : lazy_static_call(t)
    \/ \E t \in Threads : call_once(t)
    \/ \E t \in Threads, initialized \in BOOLEAN : closure(t, initialized)
    \/ \E t \in Threads : call_once_complete(t)
    \/ \E t \in Threads : as_ref(t)

SpecRuntime == InitRuntime /\ [][NextRuntime]_vars

----------------------------------------------------------------------------
(* Properties of address generation *)

\* The addresses a finished call handed to its caller.
Returned(p) ==
    IF ret[p].tag # "Ok" THEN <<>>
    ELSE IF op[p] = "get_addresses" THEN ret[p].value
    ELSE <<ret[p].value>>

\* Sum of the amounts of the outputs that are not spent.
RECURSIVE UnspentSum(_)
UnspentSum(outputs) ==
    IF outputs = <<>> THEN 0
    ELSE (IF Head(outputs).is_spent THEN 0 ELSE Head(outputs).amount) + UnspentSum(Tail(outputs))

\* C1: a successful get_addresses(account, count, internal) with count >= 2
\* returns count addresses whose key_index values are pairwise distinct.
C1_BatchKeyIndexesDistinct ==
    \A p \in Callers :
        (pc[p] = "done" /\ op[p] = "get_addresses" /\ ret[p].tag = "Ok" /\ count[p] >= 2)
        => /\ Len(ret[p].value) = count[p]
           /\ \A i, j \in DOMAIN ret[p].value :
                i # j => ret[p].value[i].key_index # ret[p].value[j].key_index

\* C2: under any interleaving, no two callers against the same account hold
\* (observe, claim) the same key_index.
C2_NoSharedKeyIndex ==
    \A p, q \in Callers :
        (p # q /\ cur[p].tag = "Some" /\ cur[q].tag = "Some")
        => cur[p].key_index # cur[q].key_index

\* A step in which caller p's get_new_address returns Ok.
GetNewAddressSucceeds(p) ==
    /\ pc[p] = "get_balance"
    /\ \/ pc'[p] = "get_new_address"
       \/ pc'[p] = "done" /\ ret'[p].tag = "Ok"

\* C3: a successful get_new_address allocates key_index = the number of
\* addresses the account held, and appends one address carrying it, so the
\* account's address count grows by exactly one.
C3_GetNewAddressAppends ==
    [][\A p \in Callers :
         GetNewAddressSucceeds(p)
         => /\ cur[p].key_index = Len(addresses)
            /\ Len(addresses') = Len(addresses) + 1
            /\ addresses'[Len(addresses')].key_index = cur[p].key_index]_vars

\* C4: every address the ledger produces (get_new_address, AddressBuilder::build)
\* has balance = sum of the amounts of its outputs that are not spent.
C4_BalanceIsUnspentSum ==
    /\ \A p \in Callers :
         \A i \in DOMAIN Returned(p) :
            Returned(p)[i].balance = UnspentSum(Returned(p)[i].outputs)
    /\ built.tag = "Ok" => built.value.balance = UnspentSum(built.value.outputs)

\* C5: when the k-th address of a get_addresses batch fails, the addresses the
\* batch already obtained are still handed to the caller.
C5_PartialBatchKept ==
    \A p \in Callers :
        (pc[p] = "done" /\ op[p] = "get_addresses")
        => Len(Returned(p)) = pushed[p]

\* C7: get_iota_address is deterministic (identical inputs, identical outcome),
\* and it returns: an address of exactly 32 bytes, or an error when the vault
\* fails or the decoded address is not 32 bytes.
C7_DerivationDeterministicOrError ==
    /\ \A d, e \in derived : d[1] = e[1] => d[2] = e[2]
    /\ \A d \in derived :
         /\ d[2].tag \in {"Ok", "Err"}
         /\ d[2].tag = "Ok" => Len(d[2].value) = ED25519_ADDRESS_LENGTH
         /\ vault[d[1]].tag = "Err" => d[2].tag = "Err"

----------------------------------------------------------------------------
(* Properties of is_unspent *)

SentFrom(a) == \E i \in DOMAIN messages : messages[i].type = "Sent" /\ a \in messages[i].addresses

\* C6: is_unspent(account, address) is false exactly when the address is a
\* source address of a Sent message of the account's history.
C6_UnspentIffNotSentSource ==
    unspent.tag = "Some" => (unspent.value <=> ~SentFrom(unspent.address))

\* C6 witness: an address judged unspent although a Sent message pays to it and
\* a message that is not Sent spends from it.
C6_Witness ==
    /\ unspent.tag = "Some"
    /\ unspent.value
    /\ \E i \in DOMAIN messages :
         messages[i].type = "Sent" /\ unspent.address \in messages[i].destinations
    /\ \E i \in DOMAIN messages :
         messages[i].type # "Sent" /\ unspent.address \in messages[i].addresses

----------------------------------------------------------------------------
(* Properties of the payload codec *)

\* C8: round trip: unpack(pack(p), params) succeeds and equals p, for the valid
\* payloads of every variant.
C8_RoundTrip ==
    unpacked # None => unpacked = Ok(payload.value)

\* C8 witness: the test's transaction (two inputs of one transaction id, a
\* signature unlock and a reference to it) has been packed and unpacked.
C8_Witness ==
    /\ unpacked # None
    /\ payload.value.variant = "Transaction"
    /\ payload.value.essence.inputs = <<UtxoInput(Id(1), 0), UtxoInput(Id(1), 1)>>
    /\ payload.value.unlocks[2] = ReferenceUnlock(0)

\* C9: packed_len(p) is the number of bytes pack(p) produces, kind tag included.
C9_PackedLenIsLength ==
    (packed # None /\ predicted # None) => predicted.value = Len(packed.value)

\* C9 witness: a transaction with an embedded payload was packed and measured.
C9_Witness ==
    /\ packed # None
    /\ predicted # None
    /\ payload.value.variant = "Transaction"
    /\ payload.value.essence.payload # None

\* C10: the leading byte of the packed form is the variant's kind tag
\* (TreasuryTransaction 4, TaggedData 5, Transaction 6, Milestone 7), and the
\* tag determines the shape that is decoded.
C10_KindTagLeads ==
    packed # None
    => /\ Head(packed.value) =
            (CASE payload.value.variant = "TreasuryTransaction" -> 4
               [] payload.value.variant = "TaggedData" -> 5
               [] payload.value.variant = "Transaction" -> 6
               [] payload.value.variant = "Milestone" -> 7)
       /\ (unpacked # None /\ unpacked.tag = "Ok")
          => unpacked.value.variant =
               (CASE Head(packed.value) = 4 -> "TreasuryTransaction"
                  [] Head(packed.value) = 5 -> "TaggedData"
                  [] Head(packed.value) = 6 -> "Transaction"
                  [] Head(packed.value) = 7 -> "Milestone")

\* C10 witness: a milestone was packed and decoded.
C10_Witness ==
    /\ packed # None
    /\ unpacked # None
    /\ unpacked.tag = "Ok"
    /\ payload.value.variant = "Milestone"

----------------------------------------------------------------------------
(* Properties of the unlock list *)

\* C11: an unlock list is accepted only if every Reference unlock at position i
\* names an earlier position that holds a Signature unlock; otherwise it is
\* rejected with UnlockReferenceError. [Signature(K), Reference(0)] is accepted,
\* [Reference(0), Signature(K)] is rejected.
C11_ReferenceNamesEarlierSignature ==
    checked_unlocks # None
    => /\ checked_unlocks.tag = "Ok"
          <=> \A i \in DOMAIN unlock_blocks :
                 unlock_blocks[i].type = "Reference"
                 => \E j \in 1..(i - 1) :
                       /\ j = unlock_blocks[i].index + 1
                       /\ unlock_blocks[j].type = "Signature"
       /\ checked_unlocks.tag = "Ok" => checked_unlocks.value = unlock_blocks
       /\ checked_unlocks.tag # "Ok" => checked_unlocks = Err("UnlockReferenceError")
       /\ (/\ Len(unlock_blocks) = 2
           /\ unlock_blocks[1].type = "Signature"
           /\ unlock_blocks[2] = ReferenceUnlock(0)) => checked_unlocks.tag = "Ok"
       /\ (/\ Len(unlock_blocks) = 2
           /\ unlock_blocks[1] = ReferenceUnlock(0)
           /\ unlock_blocks[2].type = "Signature") => checked_unlocks.tag = "Err"

\* C11 witness: a chained reference (a reference to a reference) was rejected.
C11_Witness ==
    /\ Len(unlock_blocks) = 3
    /\ unlock_blocks[1].type = "Signature"
    /\ unlock_blocks[2] = ReferenceUnlock(0)
    /\ unlock_blocks[3] = ReferenceUnlock(1)
    /\ checked_unlocks = Err("UnlockReferenceError")

----------------------------------------------------------------------------
(* Properties of the essence builder *)

\* Two inputs of the list name the same (transaction_id, output_index) pair.
HasDuplicateInput(inputs) ==
    \E i, j \in DOMAIN inputs :
        /\ i # j
        /\ inputs[i].transaction_id = inputs[j].transaction_id
        /\ inputs[i].output_index = inputs[j].output_index

\* C12: finish() rejects an input list in which two inputs name the same
\* (transaction_id, output_index) pair, returning no essence, and accepts inputs
\* that share a transaction id but differ in output index.
C12_DuplicateInputRejected ==
    finished # None
    => /\ HasDuplicateInput(finished.described.inputs)
          => /\ finished.result.tag = "Err"
             /\ DOMAIN finished.result = {"tag", "error"}
       /\ finished.result.tag = "Ok" => finished.result.value = finished.described
       /\ (/\ finished.described.inputs = <<UtxoInput(Id(1), 0), UtxoInput(Id(1), 1)>>
           /\ finished.described.outputs =
                 <<BasicOutput(1000000, Fixed(ED25519_ADDRESS_LENGTH, 3))>>
           /\ finished.described.network_id = NETWORK_ID)
          => finished.result.tag = "Ok"

\* C12 witness: finish() was called on the inputs (T, 0), (T, 0) with a valid
\* output, and returned an error.
C12_Witness ==
    /\ finished # None
    /\ finished.described.inputs = <<UtxoInput(Id(1), 0), UtxoInput(Id(1), 0)>>
    /\ finished.described.outputs =
          <<BasicOutput(1000000, Fixed(ED25519_ADDRESS_LENGTH, 3))>>
    /\ finished.described.network_id = NETWORK_ID
    /\ finished.result.tag = "Err"

----------------------------------------------------------------------------
(* Properties of the conversions *)

\* The fixed-size fields of a conversion's subject.
FixedSizeFields(s) ==
    IF s.kind = "OutputMetadata" THEN {s.transaction_id, s.message_id}
    ELSE {s.merkle_proof} \cup {s.public_keys[i] : i \in DOMAIN s.public_keys}

\* C13: fixed-size fields are exactly 32 bytes: an AddressOutput made from
\* metadata, or a milestone essence projection, succeeds (keeping the bytes)
\* when every such field has 32 bytes, and fails with an error when one has
\* another length.
C13_FixedFieldsExactly32 ==
    (/\ converted # None
     /\ subject.value.kind \in {"OutputMetadata", "RustMilestonePayloadEssence"})
    => IF \A f \in FixedSizeFields(subject.value) : Len(f) = 32
       THEN /\ converted.tag = "Ok"
            /\ subject.value.kind = "OutputMetadata"
               => /\ converted.value.transaction_id = subject.value.transaction_id
                  /\ converted.value.message_id = subject.value.message_id
            /\ subject.value.kind = "RustMilestonePayloadEssence"
               => /\ converted.value.merkle_proof = subject.value.merkle_proof
                  /\ converted.value.public_keys = subject.value.public_keys
       ELSE converted.tag = "Err"

\* C14: every conversion from a projection into a domain type (transaction
\* essence, unlock block, payload) ends in a value or a typed error, whatever
\* the projection holds; it never panics.
C14_ConversionsReturnErrors ==
    (/\ converted # None
     /\ subject.value.kind \in {"TransactionPayloadEssence", "UnlockBlock", "Payload"})
    => converted.tag \in {"Ok", "Err"}

\* C15: converting a message that carries a payload yields a projection of that
\* payload or an error: never an absent payload, and never a panic where a
\* nested conversion fails.
C15_PayloadNeverCoercedToNone ==
    (/\ converted # None
     /\ subject.value.kind = "RustMessage"
     /\ subject.value.value.payload # None)
    => \/ converted.tag = "Err"
       \/ /\ converted.tag = "Ok"
          /\ converted.value.payload # None

\* The variants of a Payload projection that are populated.
Populated(p) == {f \in {"transaction", "milestone", "indexation"} : p[f] # None}

\* Exactly one of an UnlockBlock projection's two fields is populated.
OneKindOfUnlock(b) == (b.signature # None) # (b.reference # None)

\* C16: every Payload projection a message or essence conversion produces has
\* exactly one of transaction, milestone, indexation populated, the payload
\* embedded in a projected essence included; every UnlockBlock projection has
\* exactly one of signature, reference populated.
C16_ExactlyOneVariantPopulated ==
    (converted # None /\ converted.tag = "Ok")
    => /\ subject.value.kind = "RustMessage" /\ converted.value.payload # None
          => /\ Cardinality(Populated(converted.value.payload.value)) = 1
             /\ converted.value.payload.value.transaction # None
                => /\ \A i \in DOMAIN converted.value.payload.value.transaction.value[1].unlock_blocks :
                        OneKindOfUnlock(
                            converted.value.payload.value.transaction.value[1].unlock_blocks[i])
                   /\ converted.value.payload.value.transaction.value[1].essence.payload # None
                      => Cardinality(Populated(
                             converted.value.payload.value.transaction.value[1].essence.payload.value)) = 1
       /\ subject.value.kind = "RustTransactionPayloadEssence" /\ converted.value.payload # None
          => Cardinality(Populated(converted.value.payload.value)) = 1
       /\ subject.value.kind = "RustUnlockBlock"
          => OneKindOfUnlock(converted.value)

\* A message with a transaction of a signature unlock and a reference unlock was projected.
C16_Witness ==
    /\ converted # None
    /\ converted.tag = "Ok"
    /\ subject.value.kind = "RustMessage"
    /\ converted.value.payload # None
    /\ converted.value.payload.value.transaction # None
    /\ Len(converted.value.payload.value.transaction.value[1].unlock_blocks) = 2
    /\ converted.value.payload.value.transaction.value[1].unlock_blocks[1].signature # None
    /\ converted.value.payload.value.transaction.value[1].unlock_blocks[2].reference # None

\* C17: two conversions of the same essence produce the same address strings,
\* whatever other threads do in between: the prefix is a parameter of the
\* conversion, not state a thread can change.
C17_SameEssenceSameStrings ==
    (converted # None /\ reconverted # None) => reconverted = converted

\* C18: a domain essence or unlock block that is projected and converted back
\* comes back: the second conversion succeeds and its result equals the original.
C18_ProjectionRoundTrip ==
    restored # None => restored = Ok(subject.value.value)

\* C19: equality, ordering and hashing of Address agree with each other and
\* depend only on the wrapped address: two addresses are equal exactly when they
\* wrap the same address, exactly then they compare Equal, and equal addresses
\* feed a hasher the same; Less and Greater mirror each other.
C19_EqOrdHashConsistent ==
    (equal # None /\ ordering # None /\ hashes # None)
    => /\ equal.value = (lhs.value.address = rhs.value.address)
       /\ equal.value = (ordering.value = "Equal")
       /\ equal.value => hashes.value[1] = hashes.value[2]
       /\ ordering.value = "Less" <=> address_cmp(rhs.value, lhs.value) = "Greater"
       /\ ordering = address_partial_cmp(
                         NewAddress(lhs.value.address, 0, 0, FALSE),
                         NewAddress(rhs.value.address, 0, 0, FALSE))
       /\ hashes.value[1] = address_hash(NewAddress(lhs.value.address, 0, 0, FALSE), <<>>)

\* Two addresses that wrap the same address and differ in balance were compared,
\* ordered and hashed.
C19_Witness ==
    /\ equal # None
    /\ ordering # None
    /\ hashes # None
    /\ lhs.value.address = rhs.value.address
    /\ lhs.value.balance # rhs.value.balance
    /\ equal.value

\* C20: the runtime is constructed at most once and exactly once when a future
\* has been spawned, every spawn uses that one runtime, the lazy_static!
\* initializer starts at most once, and a value is handed out only after the
\* initialization has completed and is the value it stored.
C20_InitializedOnce ==
    /\ runtimes_created <= 1
    /\ init_runs <= 1
    /\ \A s \in spawned : runtimes_created = 1 /\ RUNTIME.value = Some(s.runtime)
    /\ \A t \in Threads :
          /\ handle[t] # None => handle[t] = RUNTIME.value
          /\ thread_pc[t] = "as_ref" => INIT = "Complete" /\ VALUE # None
          /\ handed[t] # None /\ handed[t] # Panic
             => INIT = "Complete" /\ handed[t] = Ok(VALUE.value)

\* Two threads have each spawned a future and each been handed the lazy value.
C20_Witness ==
    /\ \E s1 \in spawned, s2 \in spawned : s1.thread # s2.thread
    /\ \A t \in Threads : handed[t] # None /\ handed[t] # Panic

====
